---------------------------- MODULE Spec2Model ----------------------------
(***************************************************************************)
(* Verification model of the ingestion-and-aggregation pipeline of the     *)
(* weekly mileage tracker (src/src/lib/parseActivities.ts, revision with   *)
(* the multi-line aware scanner): parseCSV, parseDate, getWeekStart,       *)
(* getWeekEnd, groupByWeek, calculateStats; of parseGPX; of the            *)
(* Dashboard's loads and uploads against the activities table; of the      *)
(* row-level-security policies of the tables; and of the handler of the    *)
(* function admin-invite-user.                                             *)
(*                                                                         *)
(* Text is a sequence of one-character strings.  A Date is either          *)
(* InvalidDate (time value NaN) or a record [day, ms]: whole days since    *)
(* 1 Jan 1970 and milliseconds inside the day, host time zone UTC.         *)
(* A number is NaN or an exact decimal fraction [num, den].                *)
(***************************************************************************)
EXTENDS Integers, Sequences, FiniteSets, Bags, TLC

VARIABLES
    csvText,      \* the text handed to parseCSV
    header,       \* the header line csvText starts with (<<>> when none)
    rowsIn,       \* the data rows written into csvText, as their cell texts
    wanted,       \* the category filter the caller wants applied
    pc,           \* "input" while the text is being produced, then "parsed"
    records,      \* parseCSV's local `records` when the scanner loop is over
    result,       \* the Activity[] parseCSV returned
    wkInput,      \* the Activity[] handed to groupByWeek
    wkPc,         \* "input", then "grouped" or "threw"
    weeks,        \* the WeekData[] groupByWeek returned
    stats,        \* what calculateStats returned, NoStats before the call
    gpxDoc,       \* what the gpxparser library makes of the GPX text
    gpxName,      \* the name of the GPX file
    now,          \* the clock: what `new Date()` returns
    gpxPc,        \* "input" while the document is produced, then "parsed"
    gpxOut,       \* the calls of parseGPX so far: the clock and what came back
    store,        \* the rows of the user in the activities table
    allActivities,\* the Dashboard's state allActivities
    loading,      \* the Dashboard's state loading
    inflight,     \* the handlers waiting for the answer of the store (a bag)
    opCount,      \* the handlers started so far
    dateField,    \* a date cell: its text and the parts it was written from
    dateOut,      \* what parseDate returned for it, NoDate before the call
    userRoles,    \* the rows of the table user_roles
    activityRows, \* the rows of the table activities, of every user
    lastStmt,     \* the last statement a signed-in user ran on the tables
    stmtCount,    \* the statements run so far
    authUsers,    \* the rows of auth.users
    req,          \* the request admin-invite-user is handling
    fnPc,         \* where the handler of admin-invite-user stands
    fnUser,       \* the handler's local `user`
    fnInvited,    \* the handler's local inviteData.user
    fnResp,       \* the status of the Response the handler returned
    invitesSent,  \* the e-mail addresses an invitation was sent to
    reqCount      \* the requests received so far

gpxVars == <<gpxDoc, gpxName, now, gpxPc, gpxOut>>

dashVars == <<store, allActivities, loading, inflight, opCount>>

dateVars == <<dateField, dateOut>>

dbVars == <<userRoles, activityRows, lastStmt, stmtCount>>

fnVars == <<authUsers, req, fnPc, fnUser, fnInvited, fnResp, invitesSent, reqCount>>

vars == <<csvText, header, rowsIn, wanted, pc, records, result, wkInput, wkPc,
          weeks, stats, gpxVars, dashVars, dateVars, dbVars, fnVars>>

(***************************************************************************)
(* Characters                                                              *)
(***************************************************************************)
QUOTE == "\""
COMMA == ","
LF    == "\n"
CR    == "\r"
SPACE == " "
TAB   == "\t"

Digits == {"0", "1", "2", "3", "4", "5", "6", "7", "8", "9"}

\* String.prototype.trim strips white space and line terminators.
WhiteSpace == {SPACE, TAB, LF, CR}

RECURSIVE TrimStart(_)
TrimStart(s) ==
    IF s # <<>> /\ Head(s) \in WhiteSpace THEN TrimStart(Tail(s)) ELSE s

RECURSIVE TrimEnd(_)
TrimEnd(s) ==
    IF s # <<>> /\ s[Len(s)] \in WhiteSpace
    THEN TrimEnd(SubSeq(s, 1, Len(s) - 1))
    ELSE s

Trim(s) == TrimEnd(TrimStart(s))

(***************************************************************************)
(* parseCSV, first half: the character scanner                             *)
(***************************************************************************)
ScanInit ==
    [records |-> <<>>, currentRecord |-> <<>>, currentField |-> <<>>,
     inQuotes |-> FALSE]

\* `text[i + 1] === '\n'` of the source, for the 1-based position i.
NextIsLF(text, i) == i < Len(text) /\ text[i + 1] = LF

\* The record is kept only when it has more than one field.
PushRecord(recs, rec) == IF Len(rec) > 1 THEN Append(recs, rec) ELSE recs

\* Variant of ScanChar, as in the earlier line-splitting revision of parseCSV:
\* a line terminator ends the record inside quotes too.
ScanCharLineSplit(st, text, i) ==
    LET char == text[i] IN
    IF char = QUOTE
    THEN [st EXCEPT !.inQuotes = ~st.inQuotes]
    ELSE IF char = COMMA /\ ~st.inQuotes
    THEN [st EXCEPT !.currentRecord = Append(@, Trim(st.currentField)),
                    !.currentField = <<>>]
    ELSE IF char \in {LF, CR}
    THEN IF char = CR /\ NextIsLF(text, i)
         THEN st
         ELSE [st EXCEPT
                 !.records = PushRecord(@,
                     Append(st.currentRecord, Trim(st.currentField))),
                 !.currentRecord = <<>>,
                 !.currentField = <<>>,
                 !.inQuotes = FALSE]
    ELSE [st EXCEPT !.currentField = Append(@, char)]

\* One iteration of the scanner loop, on the character at 1-based position i.
ScanChar(st, text, i) ==
    LET char == text[i] IN
    IF char = QUOTE
    THEN [st EXCEPT !.inQuotes = ~st.inQuotes]
    ELSE IF char = COMMA /\ ~st.inQuotes
    THEN [st EXCEPT !.currentRecord = Append(@, Trim(st.currentField)),
                    !.currentField = <<>>]
    ELSE IF char \in {LF, CR} /\ ~st.inQuotes
    THEN IF char = CR /\ NextIsLF(text, i)
         THEN st
         ELSE [st EXCEPT
                 !.records = PushRecord(@,
                     Append(st.currentRecord, Trim(st.currentField))),
                 !.currentRecord = <<>>,
                 !.currentField = <<>>]
    ELSE [st EXCEPT !.currentField = Append(@, char)]

\* The scanner loop over positions lo..hi, left to right, from state st.  The
\* range is halved, and the left half evaluated first, only to keep the
\* evaluation shallow; the characters are still consumed in order.
RECURSIVE ScanLoop(_, _, _, _)
ScanLoop(st, text, lo, hi) ==
    IF lo > hi THEN st
    ELSE IF lo = hi THEN ScanChar(st, text, lo)
    ELSE LET mid  == (lo + hi) \div 2
             left == ScanLoop(st, text, lo, mid)
         IN  IF left.inQuotes \in BOOLEAN
             THEN ScanLoop(left, text, mid + 1, hi)
             ELSE left

\* "Push last record": what is left when the text does not end in a terminator.
PushLast(st) ==
    IF Len(st.currentRecord) > 0 \/ st.currentField # <<>>
    THEN PushRecord(st.records, Append(st.currentRecord, Trim(st.currentField)))
    ELSE st.records

ScanRecords(text) == PushLast(ScanLoop(ScanInit, text, 1, Len(text)))

(***************************************************************************)
(* Numbers: parseFloat and the arithmetic the pipeline uses                *)
(***************************************************************************)
NaN == [kind |-> "nan", num |-> 0, den |-> 1]
Null == [kind |-> "null", num |-> 0, den |-> 1]

RECURSIVE Gcd(_, _)
Gcd(a, b) == IF b = 0 THEN a ELSE Gcd(b, a % b)

Abs(n) == IF n < 0 THEN -n ELSE n

\* The number num/den in lowest terms (den > 0).
Num(num, den) ==
    LET g == Gcd(Abs(num), den) IN
    [kind |-> "num", num |-> num \div g, den |-> den \div g]

Zero == Num(0, 1)

IsNumber(x) == x.kind = "num"
IsPositive(x) == x.kind = "num" /\ x.num > 0
IsInteger(x) == x.kind = "num" /\ x.den = 1

\* x <= 0 of the source: false when x is NaN.
LeqZero(x) == x.kind = "num" /\ x.num <= 0

\* x / n for a positive integer n; NaN / n is NaN.
DivBy(x, n) == IF x.kind = "num" THEN Num(x.num, x.den * n) ELSE NaN

\* x + y; NaN if either is NaN.
Plus(x, y) ==
    IF x.kind = "num" /\ y.kind = "num"
    THEN Num(x.num * y.den + y.num * x.den, x.den * y.den)
    ELSE NaN

\* `x || y` of the source on numbers: NaN and 0 are falsy.
OrElse(x, y) == IF x.kind = "num" /\ x.num # 0 THEN x ELSE y

DigitVal ==
    "0" :> 0 @@ "1" :> 1 @@ "2" :> 2 @@ "3" :> 3 @@ "4" :> 4 @@
    "5" :> 5 @@ "6" :> 6 @@ "7" :> 7 @@ "8" :> 8 @@ "9" :> 9

\* Length of the run of characters of `class` that starts at position p.
RECURSIVE RunLen(_, _, _)
RunLen(s, p, class) ==
    IF p <= Len(s) /\ s[p] \in class THEN 1 + RunLen(s, p + 1, class) ELSE 0

RECURSIVE Pow10(_)
Pow10(n) == IF n = 0 THEN 1 ELSE 10 * Pow10(n - 1)

\* parseInt of a string of decimal digits.
RECURSIVE DigitsValue(_)
DigitsValue(s) ==
    IF s = <<>> THEN 0
    ELSE 10 * DigitsValue(SubSeq(s, 1, Len(s) - 1)) + DigitVal[s[Len(s)]]

\* parseFloat: leading white space, an optional sign, then the longest prefix
\* of the form digits [. digits] or . digits; NaN when there is none.  The
\* exponent part and the literal Infinity are outside the modelled inputs.
ParseFloat(str) ==
    LET s     == TrimStart(str)
        neg   == s # <<>> /\ s[1] = "-"
        p     == IF s # <<>> /\ s[1] \in {"+", "-"} THEN 2 ELSE 1
        nInt  == RunLen(s, p, Digits)
        dot   == p + nInt <= Len(s) /\ s[p + nInt] = "."
        nFrac == IF dot THEN RunLen(s, p + nInt + 1, Digits) ELSE 0
        mag   == DigitsValue(SubSeq(s, p, p + nInt - 1)) * Pow10(nFrac)
                 + DigitsValue(SubSeq(s, p + nInt + 1, p + nInt + nFrac))
    IN  IF nInt = 0 /\ nFrac = 0 THEN NaN
        ELSE Num(IF neg THEN -mag ELSE mag, Pow10(nFrac))

(***************************************************************************)
(* Dates: the Date object in a host whose local time zone is UTC           *)
(***************************************************************************)
MsPerDay == 24 * 60 * 60 * 1000

InvalidDate == [valid |-> FALSE, day |-> 0, ms |-> 0]

IsLeap(y) == (y % 4 = 0 /\ y % 100 # 0) \/ y % 400 = 0

\* Leap years in 1..y.
LeapsUpTo(y) == (y \div 4) - (y \div 100) + (y \div 400)

\* Days from 1 Jan 1970 to 1 Jan of year y.
DaysBeforeYear(y) == 365 * (y - 1970) + LeapsUpTo(y - 1) - LeapsUpTo(1969)

DaysInMonth(y, m) ==
    IF m = 1 THEN (IF IsLeap(y) THEN 29 ELSE 28)
    ELSE IF m \in {3, 5, 8, 10} THEN 30 ELSE 31

\* Days from 1 Jan of year y to the first of month m (0 = January).
RECURSIVE DaysBeforeMonth(_, _)
DaysBeforeMonth(y, m) ==
    IF m = 0 THEN 0 ELSE DaysBeforeMonth(y, m - 1) + DaysInMonth(y, m - 1)

\* MakeDay: month and date may lie outside their calendar range and carry
\* into the neighbouring months and years.
DayNumber(y, m, d) ==
    LET yy == y + (m \div 12)
        mm == m % 12
    IN  DaysBeforeYear(yy) + DaysBeforeMonth(yy, mm) + d - 1

\* new Date(year, month, day, hours, minutes, seconds): a year 0..99 means
\* 1900 + year; the time of day carries into the day number.
MakeDate(y, m, d, h, mi, sec) ==
    LET yr  == IF y \in 0..99 THEN 1900 + y ELSE y
        tms == ((h * 60 + mi) * 60 + sec) * 1000
    IN  [valid |-> TRUE,
         day   |-> DayNumber(yr, m, d) + (tms \div MsPerDay),
         ms    |-> tms % MsPerDay]

YearOf(day) ==
    LET lo == 1970 + (day \div 365) - 1
        hi == 1970 + (day \div 366) + 1
    IN  CHOOSE y \in (IF lo < hi THEN lo ELSE hi)..(IF lo < hi THEN hi ELSE lo) :
            DaysBeforeYear(y) <= day /\ day < DaysBeforeYear(y + 1)

MonthOf(day) ==
    LET y == YearOf(day)
        r == day - DaysBeforeYear(y)
    IN  CHOOSE m \in 0..11 :
            DaysBeforeMonth(y, m) <= r /\ r < DaysBeforeMonth(y, m) + DaysInMonth(y, m)

\* getDate: the day of the month, 1..31.
GetDate(date) ==
    LET y == YearOf(date.day)
    IN  date.day - DaysBeforeYear(y) - DaysBeforeMonth(y, MonthOf(date.day)) + 1

\* getDay: 0 = Sunday .. 6 = Saturday (1 Jan 1970 was a Thursday).
GetDay(date) == (date.day + 4) % 7

\* setDate(n): day n of the date's month, the time of day kept.
SetDate(date, n) ==
    [date EXCEPT !.day = DayNumber(YearOf(date.day), MonthOf(date.day), n)]

\* a.getTime() - b.getTime(), as its sign; "NaN" when either date is invalid.
TimeDiff(a, b) ==
    IF ~a.valid \/ ~b.valid THEN "NaN"
    ELSE IF a.day < b.day \/ (a.day = b.day /\ a.ms < b.ms) THEN "neg"
    ELSE IF a.day = b.day /\ a.ms = b.ms THEN "zero"
    ELSE "pos"

(***************************************************************************)
(* parseDate                                                               *)
(***************************************************************************)
Letters ==
    {"a", "b", "c", "d", "e", "f", "g", "h", "i", "j", "k", "l", "m",
     "n", "o", "p", "q", "r", "s", "t", "u", "v", "w", "x", "y", "z",
     "A", "B", "C", "D", "E", "F", "G", "H", "I", "J", "K", "L", "M",
     "N", "O", "P", "Q", "R", "S", "T", "U", "V", "W", "X", "Y", "Z"}

\* The regular expression classes \w and \s.
WordChars == Letters \cup Digits \cup {"_"}

months ==
    <<"J", "a", "n">> :> 0 @@
    <<"F", "e", "b">> :> 1 @@
    <<"M", "a", "r">> :> 2 @@
    <<"A", "p", "r">> :> 3 @@
    <<"M", "a", "y">> :> 4 @@
    <<"J", "u", "n">> :> 5 @@
    <<"J", "u", "l">> :> 6 @@
    <<"A", "u", "g">> :> 7 @@
    <<"S", "e", "p", "t">> :> 8 @@
    <<"S", "e", "p">> :> 8 @@
    <<"O", "c", "t">> :> 9 @@
    <<"N", "o", "v">> :> 10 @@
    <<"D", "e", "c">> :> 11

NoMatch == [ok |-> FALSE]

\* The parts of
\*   (\d+)\s+(\w+)\s+(\d{4}),?\s*(\d{1,2}):(\d{2}):?(\d{2})?
\* in order: the class of each part and the lengths it may take in a text of
\* n characters.
DatePattern(n) ==
    << [class |-> Digits,     lens |-> 1..n],
       [class |-> WhiteSpace, lens |-> 1..n],
       [class |-> WordChars,  lens |-> 1..n],
       [class |-> WhiteSpace, lens |-> 1..n],
       [class |-> Digits,     lens |-> {4}],
       [class |-> {COMMA},    lens |-> {0, 1}],
       [class |-> WhiteSpace, lens |-> 0..n],
       [class |-> Digits,     lens |-> {1, 2}],
       [class |-> {":"},      lens |-> {1}],
       [class |-> Digits,     lens |-> {2}],
       [class |-> {":"},      lens |-> {0, 1}],
       [class |-> Digits,     lens |-> {0, 2}] >>

\* The longest of the lengths `lens` that a run of `run` characters allows;
\* -1 when none does.
LongestFit(lens, run) ==
    IF \A l \in lens : l > run THEN -1
    ELSE CHOOSE l \in lens : l <= run /\ \A m \in lens : m <= run => m <= l

\* The parts matched one after the other from position p, each as long as it
\* can be.  Every part is followed by a part of a disjoint class, so the
\* longest match of each part is the only candidate.  `acc` collects the
\* <<start, length>> of every part.
RECURSIVE MatchParts(_, _, _, _)
MatchParts(s, p, parts, acc) ==
    IF parts = <<>> THEN [ok |-> TRUE, at |-> acc]
    ELSE IF LongestFit(Head(parts).lens, RunLen(s, p, Head(parts).class)) < 0
    THEN NoMatch
    ELSE MatchParts(s,
            p + LongestFit(Head(parts).lens, RunLen(s, p, Head(parts).class)),
            Tail(parts),
            Append(acc, <<p, LongestFit(Head(parts).lens,
                                        RunLen(s, p, Head(parts).class))>>))

\* The text of a matched part <<start, length>>.
Group(s, at) == SubSeq(s, at[1], at[1] + at[2] - 1)

\* The groups of a match, with the default '0' of the destructuring for the
\* seconds.
MatchGroups(s, m) ==
    IF ~m.ok THEN NoMatch
    ELSE [ok       |-> TRUE,
          day      |-> Group(s, m.at[1]),
          monthStr |-> Group(s, m.at[3]),
          year     |-> Group(s, m.at[5]),
          hours    |-> Group(s, m.at[8]),
          minutes  |-> Group(s, m.at[10]),
          seconds  |-> IF m.at[12][2] = 0 THEN <<"0">> ELSE Group(s, m.at[12])]

\* The match of the expression that starts at position p.
DateMatchAt(s, p) ==
    MatchGroups(s, MatchParts(s, p, DatePattern(Len(s)), <<>>))

\* dateStr.match(...): the leftmost position at which the expression matches.
DateMatch(s) ==
    LET starts == {p \in 1..Len(s) : DateMatchAt(s, p).ok}
    IN  IF starts = {} THEN NoMatch
        ELSE DateMatchAt(s, CHOOSE p \in starts : \A q \in starts : p <= q)

\* new Date(dateStr), the fallback.  Modelled for the ISO date form
\* YYYY-MM-DD (midnight UTC); every other text the model produces has no
\* date in it and parses to an invalid Date.
GenericDateParse(s) ==
    IF /\ Len(s) = 10
       /\ \A k \in {1, 2, 3, 4, 6, 7, 9, 10} : s[k] \in Digits
       /\ s[5] = "-" /\ s[8] = "-"
       /\ DigitsValue(SubSeq(s, 6, 7)) \in 1..12
       /\ DigitsValue(SubSeq(s, 9, 10)) \in 1..31
    THEN [valid |-> TRUE,
          day   |-> DayNumber(DigitsValue(SubSeq(s, 1, 4)),
                              DigitsValue(SubSeq(s, 6, 7)) - 1,
                              DigitsValue(SubSeq(s, 9, 10))),
          ms    |-> 0]
    ELSE InvalidDate

parseDate(dateStr) ==
    LET match == DateMatch(dateStr) IN
    IF ~match.ok THEN GenericDateParse(dateStr)
    ELSE LET month == IF match.monthStr \in DOMAIN months
                      THEN months[match.monthStr] ELSE 0
         IN  MakeDate(DigitsValue(match.year), month, DigitsValue(match.day),
                      DigitsValue(match.hours), DigitsValue(match.minutes),
                      DigitsValue(match.seconds))

(***************************************************************************)
(* parseCSV, second half: header resolution, the row loop and the sort     *)
(***************************************************************************)
StrActivityID   == <<"A", "c", "t", "i", "v", "i", "t", "y", SPACE, "I", "D">>
StrActivityDate == <<"A", "c", "t", "i", "v", "i", "t", "y", SPACE, "D", "a", "t", "e">>
StrActivityName == <<"A", "c", "t", "i", "v", "i", "t", "y", SPACE, "N", "a", "m", "e">>
StrActivityType == <<"A", "c", "t", "i", "v", "i", "t", "y", SPACE, "T", "y", "p", "e">>
StrRun          == <<"R", "u", "n">>
StrUnknownActivity == <<"U", "n", "k", "n", "o", "w", "n", SPACE, "A", "c", "t", "i", "v", "i", "t", "y">>

\* h.includes(pat)
Includes(h, pat) ==
    \E i \in 0..(Len(h) - Len(pat)) : SubSeq(h, i + 1, i + Len(pat)) = pat

\* headers.findIndex(h => h.includes(pat)): 0-based, -1 when none matches.
FindIndex(headers, pat) ==
    LET hits == {i \in 1..Len(headers) : Includes(headers[i], pat)}
    IN  IF hits = {} THEN -1
        ELSE (CHOOSE i \in hits : \A j \in hits : i <= j) - 1

distanceIdx    == 17
elapsedTimeIdx == 15
movingTimeIdx  == 16
elevationIdx   == 20
avgHRIdx       == 31
maxHRIdx       == 30

\* values[idx] for a 0-based idx.  An index outside the row reads undefined,
\* which every use in parseCSV treats as the empty string: it is falsy, and
\* parseFloat of it is NaN.
Undefined == <<>>
At(values, idx) ==
    IF idx >= 0 /\ idx < Len(values) THEN values[idx + 1] ELSE Undefined

\* `s || fallback` of the source on strings: the empty string is falsy.
StrOr(s, fallback) == IF s # <<>> THEN s ELSE fallback

\* Variant of IdOk: only the presence of the identifier is tested.
IdOkNonEmpty(activityId) == activityId # <<>>

\* activityId && /^\d+$/.test(activityId)
IdOk(activityId) ==
    activityId # <<>> /\ \A k \in 1..Len(activityId) : activityId[k] \in Digits

\* Variant of TypeOk, as in the earlier revision: no category filter.
TypeOkAny(activityType) == TRUE

\* activityType === 'Run'
TypeOk(activityType) == activityType = StrRun

\* Number of meters in a kilometer, the divisor of the distance column.
MetersPerKm == 1000

DistanceKm(values) ==
    DivBy(OrElse(ParseFloat(At(values, distanceIdx)), Zero), MetersPerKm)

\* Variant of DistanceOk: only negative distances are dropped.
DistanceOkZeroKept(distanceKm) == ~(distanceKm.kind = "num" /\ distanceKm.num < 0)

\* !(distanceKm <= 0)
DistanceOk(distanceKm) == ~LeqZero(distanceKm)

\* The three `continue` guards of the row loop.
RowKept(values, idIdx, typeIdx) ==
    /\ IdOk(At(values, idIdx))
    /\ TypeOk(StrOr(At(values, typeIdx), <<>>))
    /\ DistanceOk(DistanceKm(values))

\* The object pushed for a row that passes the guards.
RowActivity(values, idIdx, dateIdx, nameIdx, typeIdx) ==
    [id            |-> At(values, idIdx),
     date          |-> parseDate(StrOr(At(values, dateIdx), <<>>)),
     name          |-> StrOr(At(values, nameIdx), StrUnknownActivity),
     type          |-> StrOr(At(values, typeIdx), <<>>),
     distanceKm    |-> DistanceKm(values),
     elapsedTime   |-> OrElse(ParseFloat(At(values, elapsedTimeIdx)), Zero),
     movingTime    |-> OrElse(ParseFloat(At(values, movingTimeIdx)), Zero),
     elevationGain |-> OrElse(ParseFloat(At(values, elevationIdx)), Zero),
     avgHeartRate  |-> OrElse(ParseFloat(At(values, avgHRIdx)), Null),
     maxHeartRate  |-> OrElse(ParseFloat(At(values, maxHRIdx)), Null)]

\* Variant of RowLoop: a row that fails a guard ends the loop (`break` in
\* place of `continue`).
RECURSIVE RowLoopStopAtBadRow(_, _, _, _)
RowLoopStopAtBadRow(recs, i, hdr, acc) ==
    IF i > Len(recs) THEN acc
    ELSE IF RowKept(recs[i], hdr.idIdx, hdr.typeIdx)
    THEN RowLoopStopAtBadRow(recs, i + 1, hdr,
            Append(acc, RowActivity(recs[i], hdr.idIdx, hdr.dateIdx,
                                    hdr.nameIdx, hdr.typeIdx)))
    ELSE acc

\* The row loop over records[i .. ], appending to `acc`.
RECURSIVE RowLoop(_, _, _, _)
RowLoop(recs, i, hdr, acc) ==
    IF i > Len(recs) THEN acc
    ELSE RowLoop(recs, i + 1, hdr,
            IF RowKept(recs[i], hdr.idIdx, hdr.typeIdx)
            THEN Append(acc, RowActivity(recs[i], hdr.idIdx, hdr.dateIdx,
                                         hdr.nameIdx, hdr.typeIdx))
            ELSE acc)

\* The activities in row order, before the sort.
Activities(recs) ==
    IF Len(recs) = 0 THEN <<>>
    ELSE LET headers == recs[1]
             hdr == [idIdx   |-> FindIndex(headers, StrActivityID),
                     dateIdx |-> FindIndex(headers, StrActivityDate),
                     nameIdx |-> FindIndex(headers, StrActivityName),
                     typeIdx |-> FindIndex(headers, StrActivityType)]
         IN  RowLoop(recs, 2, hdr, <<>>)

\* The comparator of the final sort, (a, b) => a.date.getTime() -
\* b.date.getTime(), as Array.prototype.sort reads it: NaN counts as +0.
DateCompare(a, b) ==
    LET v == TimeDiff(a.date, b.date) IN
    IF v = "neg" THEN -1 ELSE IF v = "pos" THEN 1 ELSE 0

\* ECMAScript's "consistent comparison function" for the elements of s.
ConsistentComparator(s, cmp) ==
    LET E == {s[i] : i \in 1..Len(s)} IN
    /\ \A a, b \in E : (cmp[a, b] = 0) = (cmp[b, a] = 0)
    /\ \A a, b \in E : (cmp[a, b] < 0) = (cmp[b, a] > 0)
    /\ \A a, b, c \in E : cmp[a, b] = 0 /\ cmp[b, c] = 0 => cmp[a, c] = 0
    /\ \A a, b, c \in E : cmp[a, b] < 0 /\ cmp[b, c] < 0 => cmp[a, c] < 0
    /\ \A a, b, c \in E : cmp[a, b] = 0 /\ cmp[b, c] < 0 => cmp[a, c] < 0
    /\ \A a, b, c \in E : cmp[a, b] < 0 /\ cmp[b, c] = 0 => cmp[a, c] < 0

\* x inserted into the sorted sequence s behind every element not above it.
RECURSIVE InsertSorted(_, _, _)
InsertSorted(s, x, cmp) ==
    IF s = <<>> THEN <<x>>
    ELSE IF cmp[s[Len(s)], x] <= 0 THEN Append(s, x)
    ELSE Append(InsertSorted(SubSeq(s, 1, Len(s) - 1), x, cmp), s[Len(s)])

\* The stable sort of s.
RECURSIVE StableSort(_, _)
StableSort(s, cmp) ==
    IF s = <<>> THEN <<>>
    ELSE InsertSorted(StableSort(SubSeq(s, 1, Len(s) - 1), cmp), s[Len(s)], cmp)

Reorderings(s) ==
    {[i \in 1..Len(s) |-> s[f[i]]] : f \in Permutations(1..Len(s))}

\* Array.prototype.sort: the stable sort when the comparator is consistent,
\* otherwise an order the implementation defines.
SortOutcomes(s, cmp) ==
    IF ConsistentComparator(s, cmp) THEN {StableSort(s, cmp)} ELSE Reorderings(s)

\* The comparator as a function on the elements of s.
ByDate(s) ==
    LET E == {s[i] : i \in 1..Len(s)} IN [a \in E, b \in E |-> DateCompare(a, b)]

\* The values parseCSV(csvText) can return.
parseCSV(text) ==
    LET activities == Activities(ScanRecords(text))
    IN  SortOutcomes(activities, ByDate(activities))

(***************************************************************************)
(* getWeekStart, getWeekEnd, formatWeekLabel, groupByWeek                  *)
(***************************************************************************)
\* setHours(h, m, s, ms) on a valid date.
SetHours(date, h, mi, sec, ms) ==
    [date EXCEPT !.ms = ((h * 60 + mi) * 60 + sec) * 1000 + ms]

\* Variant of getWeekStart: the time of day is not reset.
getWeekStartKeepTime(date) ==
    LET day  == GetDay(date)
        diff == GetDate(date) - day + (IF day = 0 THEN -6 ELSE 1)
    IN  SetDate(date, diff)

\* For a valid date; an invalid one stays invalid.
getWeekStart(date) ==
    LET day  == GetDay(date)
        diff == GetDate(date) - day + (IF day = 0 THEN -6 ELSE 1)
    IN  SetHours(SetDate(date, diff), 0, 0, 0, 0)

\* Variant of getWeekEnd: the end is the last instant of the next Monday.
getWeekEndNextMonday(weekStart) ==
    SetHours(SetDate(weekStart, GetDate(weekStart) + 7), 23, 59, 59, 999)

getWeekEnd(weekStart) ==
    SetHours(SetDate(weekStart, GetDate(weekStart) + 6), 23, 59, 59, 999)

\* The decimal digits of a natural number.
RECURSIVE DigitsOf(_)
DigitsOf(n) ==
    LET d == CHOOSE c \in Digits : DigitVal[c] = n % 10
    IN  IF n < 10 THEN <<d>> ELSE Append(DigitsOf(n \div 10), d)

\* str.slice(2)
Slice2(str) == SubSeq(str, 3, Len(str))

\* The label `${start} - ${end} '${yy}`, kept as its parts: day of month and
\* month (0 = Jan) of the first and of the seventh day, and the year's digits
\* from the third on.
formatWeekLabel(weekStart) ==
    LET endDate == SetDate(weekStart, GetDate(weekStart) + 6)
    IN  [startDay   |-> GetDate(weekStart),
         startMonth |-> MonthOf(weekStart.day),
         endDay     |-> GetDate(endDate),
         endMonth   |-> MonthOf(endDate.day),
         year       |-> Slice2(DigitsOf(YearOf(weekStart.day)))]

\* toISOString() of a valid date, as the fields the string spells out:
\* year, month, day, and the milliseconds since midnight.
ISOString(date) ==
    <<YearOf(date.day), MonthOf(date.day) + 1, GetDate(date), date.ms>>

\* Position in the Map (a sequence of entries in insertion order) of key,
\* 0 when the Map has no such key.
MapIndex(weekMap, key) ==
    IF \E i \in 1..Len(weekMap) : weekMap[i].key = key
    THEN CHOOSE i \in 1..Len(weekMap) : weekMap[i].key = key
    ELSE 0

NewWeek(weekStart) ==
    [weekStart     |-> weekStart,
     weekEnd       |-> getWeekEnd(weekStart),
     weekLabel     |-> formatWeekLabel(weekStart),
     totalKm       |-> Zero,
     activities    |-> <<>>,
     activityCount |-> 0]

\* Variant of AddToWeek: the total is overwritten, not accumulated.
AddToWeekOverwrite(week, activity) ==
    [week EXCEPT !.totalKm = activity.distanceKm,
                 !.activities = Append(@, activity),
                 !.activityCount = @ + 1]

\* week.totalKm += ...; week.activities.push(activity); week.activityCount++
AddToWeek(week, activity) ==
    [week EXCEPT !.totalKm = Plus(@, activity.distanceKm),
                 !.activities = Append(@, activity),
                 !.activityCount = @ + 1]

\* One iteration of the loop over the activities (date valid).
WeekStep(weekMap, activity) ==
    LET weekStart == getWeekStart(activity.date)
        key       == ISOString(weekStart)
        i         == MapIndex(weekMap, key)
        map1      == IF i = 0
                     THEN Append(weekMap, [key |-> key, week |-> NewWeek(weekStart)])
                     ELSE weekMap
        j         == MapIndex(map1, key)
    IN  [map1 EXCEPT ![j].week = AddToWeek(@, activity)]

RECURSIVE WeekLoop(_, _)
WeekLoop(weekMap, activities) ==
    IF activities = <<>> THEN weekMap
    ELSE WeekLoop(WeekStep(weekMap, Head(activities)), Tail(activities))

\* (a, b) => a.weekStart.getTime() - b.weekStart.getTime()
WeekCompare(a, b) ==
    LET v == TimeDiff(a.weekStart, b.weekStart) IN
    IF v = "neg" THEN -1 ELSE IF v = "pos" THEN 1 ELSE 0

ByWeekStart(s) ==
    LET E == {s[i] : i \in 1..Len(s)} IN [a \in E, b \in E |-> WeekCompare(a, b)]

\* Array.from(weekMap.values())
MapValues(weekMap) == [i \in 1..Len(weekMap) |-> weekMap[i].week]

\* Variant of groupByWeek: the buckets are returned in Map order, unsorted.
groupByWeekUnsorted(activities) ==
    IF \E i \in 1..Len(activities) : ~activities[i].date.valid
    THEN [threw |-> TRUE, weeks |-> {<<>>}]
    ELSE [threw |-> FALSE, weeks |-> {MapValues(WeekLoop(<<>>, activities))}]

\* groupByWeek(activities): toISOString raises a RangeError on the first
\* activity whose date is invalid; otherwise the values `weeks` can be
\* returned.
groupByWeek(activities) ==
    IF \E i \in 1..Len(activities) : ~activities[i].date.valid
    THEN [threw |-> TRUE, weeks |-> {<<>>}]
    ELSE LET values == MapValues(WeekLoop(<<>>, activities))
         IN  [threw |-> FALSE, weeks |-> SortOutcomes(values, ByWeekStart(values))]

(***************************************************************************)
(* calculateStats                                                          *)
(***************************************************************************)
\* x > y of the source on numbers: false when either is NaN.
Greater(x, y) ==
    x.kind = "num" /\ y.kind = "num" /\ x.num * y.den > y.num * x.den

\* activities.reduce((sum, a) => sum + a.distanceKm, sum)
RECURSIVE TotalKm(_, _)
TotalKm(sum, activities) ==
    IF activities = <<>> THEN sum
    ELSE TotalKm(Plus(sum, Head(activities).distanceKm), Tail(activities))

\* Variant of MaxWeek: a later bucket that equals the greatest so far takes
\* its place (>= in place of >).
RECURSIVE MaxWeekLastWins(_, _)
MaxWeekLastWins(max, ws) ==
    IF ws = <<>> THEN max
    ELSE MaxWeekLastWins(IF ~Greater(max.totalKm, Head(ws).totalKm)
                         THEN Head(ws) ELSE max, Tail(ws))

\* weeks.reduce((max, w) => w.totalKm > max.totalKm ? w : max, max), for a
\* bucket max.
RECURSIVE MaxWeek(_, _)
MaxWeek(max, ws) ==
    IF ws = <<>> THEN max
    ELSE MaxWeek(IF Greater(Head(ws).totalKm, max.totalKm) THEN Head(ws) ELSE max,
                 Tail(ws))

\* weeks[0] and the value of a reduce over no bucket: undefined.
UndefinedWeek == [undefined |-> TRUE]

\* Position of `type` among the keys of the object acc (a sequence of
\* key/value entries in insertion order), 0 when it is no key of acc.
KeyIndex(acc, type) ==
    IF \E i \in 1..Len(acc) : acc[i].key = type
    THEN CHOOSE i \in 1..Len(acc) : acc[i].key = type
    ELSE 0

\* Variant of BreakdownStep: a type seen again starts over from its new
\* distance.
BreakdownStepReset(acc, a) ==
    IF KeyIndex(acc, a.type) = 0
    THEN Append(acc, [key |-> a.type, value |-> Plus(Zero, a.distanceKm)])
    ELSE [acc EXCEPT ![KeyIndex(acc, a.type)].value = Plus(Zero, a.distanceKm)]

\* acc[a.type] = (acc[a.type] || 0) + a.distanceKm
BreakdownStep(acc, a) ==
    IF KeyIndex(acc, a.type) = 0
    THEN Append(acc, [key |-> a.type, value |-> Plus(Zero, a.distanceKm)])
    ELSE [acc EXCEPT ![KeyIndex(acc, a.type)].value =
                         Plus(OrElse(@, Zero), a.distanceKm)]

RECURSIVE TypeBreakdown(_, _)
TypeBreakdown(acc, activities) ==
    IF activities = <<>> THEN acc
    ELSE TypeBreakdown(BreakdownStep(acc, Head(activities)), Tail(activities))

\* Variant of Average: the quotient is taken without the guard, so that no
\* element gives 0 / 0.
AverageUnguarded(total, count) ==
    IF count > 0 THEN DivBy(total, count) ELSE NaN

\* count > 0 ? total / count : 0
Average(total, count) ==
    IF count > 0 THEN DivBy(total, count) ELSE Zero

calculateStats(activities, ws) ==
    [called          |-> TRUE,
     totalKm         |-> TotalKm(Zero, activities),
     avgPerWeek      |-> Average(TotalKm(Zero, activities), Len(ws)),
     maxWeek         |-> IF ws = <<>> THEN UndefinedWeek ELSE MaxWeek(ws[1], ws),
     totalActivities |-> Len(activities),
     avgPerActivity  |-> Average(TotalKm(Zero, activities), Len(activities)),
     typeBreakdown   |-> TypeBreakdown(<<>>, activities),
     weekCount       |-> Len(ws)]

(***************************************************************************)
(* parseGPX (src/src/components/StatCard.tsx, second part of the file)     *)
(*                                                                         *)
(* gpxparser is a library outside the repository.  gpxDoc is what its      *)
(* parse(gpxText) leaves behind: either it raised, or the list of tracks,  *)
(* each with its name ("" when none), its points (each with an optional    *)
(* time, a Date that may be invalid), distance.total in meters when the    *)
(* track has a distance object, and elevation.pos when it has an           *)
(* elevation object.                                                        *)
(***************************************************************************)
StrNoTracks      == "No tracks found in GPX file"
StrInsufficient  == "Track has insufficient points"
StrInvalidFormat == "Invalid GPX file format"
StrGpxRun        == <<"G", "P", "X", SPACE, "R", "u", "n">>

\* date.getTime() as the decimal text a template literal makes of it, for a
\* date from 2 Jan 1970 on; "NaN" for an invalid date.  The time value is
\* day * MsPerDay + ms = (day * 864 + ms \div 100000) * 100000 + ms % 100000.
PadTo(digits, n) ==
    [i \in 1..n |-> IF i <= n - Len(digits) THEN "0" ELSE digits[i - (n - Len(digits))]]

TimeText(date) ==
    IF ~date.valid THEN <<"N", "a", "N">>
    ELSE DigitsOf(date.day * 864 + (date.ms \div 100000))
         \o PadTo(DigitsOf(date.ms % 100000), 5)

\* Math.round((endTime.getTime() - startTime.getTime()) / 1000): halves round
\* up; NaN when either date is invalid.
ElapsedSeconds(startTime, endTime) ==
    IF ~startTime.valid \/ ~endTime.valid THEN NaN
    ELSE Num((((endTime.day - startTime.day) * MsPerDay
                + endTime.ms - startTime.ms) + 500) \div 1000, 1)

\* fileName.replace(/[^a-zA-Z0-9]/g, '')
Sanitize(fileName) == SelectSeq(fileName, LAMBDA c : c \in Letters \cup Digits)

\* fileName.replace(/\.gpx$/i, '')
StripGpx(fileName) ==
    IF /\ Len(fileName) >= 4
       /\ fileName[Len(fileName) - 3] = "."
       /\ fileName[Len(fileName) - 2] \in {"g", "G"}
       /\ fileName[Len(fileName) - 1] \in {"p", "P"}
       /\ fileName[Len(fileName)] \in {"x", "X"}
    THEN SubSeq(fileName, 1, Len(fileName) - 4)
    ELSE fileName

\* `gpx-${startTime.getTime()}-${fileName.replace(...)}`
UniqueId(startTime, fileName) ==
    <<"g", "p", "x", "-">> \o TimeText(startTime) \o <<"-">> \o Sanitize(fileName)

\* Variant of StartTime: the time of the first point is never used.
StartTimeFromClock(points, clock) == clock

\* points[0].time ? new Date(points[0].time) : new Date()
StartTime(points, clock) ==
    IF points[1].hasTime THEN points[1].time ELSE clock

\* Variant of EndTime: the time of the second point is taken.
EndTimeSecondPoint(points, startTime) ==
    IF points[2].hasTime THEN points[2].time ELSE startTime

\* Variant of EndTime: without a time on the last point, the time field of
\* the first point is taken as it is.
EndTimeFirstPoint(points, startTime) ==
    IF points[Len(points)].hasTime THEN points[Len(points)].time ELSE points[1].time

\* points[points.length - 1].time ? new Date(...) : startTime
EndTime(points, startTime) ==
    IF points[Len(points)].hasTime THEN points[Len(points)].time ELSE startTime

\* track.elevation?.pos || 0
ElevationGain(track) ==
    IF track.hasElevation THEN OrElse(track.elevationPos, Zero) ELSE Zero

\* The activity object of lines 87 - 98, for the start time found.
GpxActivity(track, startTime, elapsedTime, fileName) ==
    [id            |-> UniqueId(startTime, fileName),
     date          |-> startTime,
     name          |-> StrOr(StrOr(track.name, StripGpx(fileName)), StrGpxRun),
     type          |-> StrRun,
     distanceKm    |-> DivBy(track.distance, MetersPerKm),
     elapsedTime   |-> elapsedTime,
     movingTime    |-> elapsedTime,
     elevationGain |-> ElevationGain(track),
     avgHeartRate  |-> Null,
     maxHeartRate  |-> Null]

\* Variant of TrackUsed: the last track of the file is taken.
TrackUsedLast(tracks) == tracks[Len(tracks)]

\* gpx.tracks[0]
TrackUsed(tracks) == tracks[1]

\* How a call ends: with a return value, or with an exception.
Returned(value) == [threw |-> FALSE, value |-> value]
Threw == [threw |-> TRUE, value |-> [exception |-> "Error"]]

\* The statements after the two guards.  Reading `total` of a distance
\* object the track does not have raises a TypeError.
GpxFromTrack(track, fileName, clock) ==
    IF ~track.hasDistance THEN Threw
    ELSE Returned([activity |->
            GpxActivity(track,
                        StartTime(track.points, clock),
                        ElapsedSeconds(StartTime(track.points, clock),
                                       EndTime(track.points,
                                               StartTime(track.points, clock))),
                        fileName)])

\* The body of the try block.
GpxTry(doc, fileName, clock) ==
    IF doc.throws THEN Threw
    ELSE IF Len(doc.tracks) = 0 THEN Returned([error |-> StrNoTracks])
    ELSE IF Len(TrackUsed(doc.tracks).points) < 2
    THEN Returned([error |-> StrInsufficient])
    ELSE GpxFromTrack(TrackUsed(doc.tracks), fileName, clock)

\* Variant of parseGPX: without the try/catch.
parseGPXNoCatch(doc, fileName, clock) == GpxTry(doc, fileName, clock)

\* parseGPX(gpxText, fileName) at the instant `clock`, for the text that the
\* library turns into doc.
parseGPX(doc, fileName, clock) ==
    IF GpxTry(doc, fileName, clock).threw
    THEN Returned([error |-> StrInvalidFormat])
    ELSE GpxTry(doc, fileName, clock)

(***************************************************************************)
(* The Dashboard (src/src/components/Dashboard.tsx) and the activities     *)
(* table behind it (supabase/migrations): loadActivities, handleFileUpload *)
(* and handleGPXUpload, each split where it awaits the store.              *)
(***************************************************************************)
\* date.toISOString() of a valid date of the years 1000 - 9999:
\* YYYY-MM-DDTHH:mm:ss.sssZ.  On an invalid date it raises a RangeError.
ISOText(date) ==
    PadTo(DigitsOf(YearOf(date.day)), 4) \o <<"-">>
    \o PadTo(DigitsOf(MonthOf(date.day) + 1), 2) \o <<"-">>
    \o PadTo(DigitsOf(GetDate(date)), 2) \o <<"T">>
    \o PadTo(DigitsOf(date.ms \div 3600000), 2) \o <<":">>
    \o PadTo(DigitsOf((date.ms \div 60000) % 60), 2) \o <<":">>
    \o PadTo(DigitsOf((date.ms \div 1000) % 60), 2) \o <<".">>
    \o PadTo(DigitsOf(date.ms % 1000), 3) \o <<"Z">>

\* new Date(row.activity_date) for the timestamp text the store returns,
\* which spells the same instant in the same fields.
DateOfISOText(text) ==
    IF /\ Len(text) = 24
       /\ \A k \in {1, 2, 3, 4, 6, 7, 9, 10, 12, 13, 15, 16, 18, 19, 21, 22, 23} :
             text[k] \in Digits
    THEN [valid |-> TRUE,
          day   |-> DayNumber(DigitsValue(SubSeq(text, 1, 4)),
                              DigitsValue(SubSeq(text, 6, 7)) - 1,
                              DigitsValue(SubSeq(text, 9, 10))),
          ms    |-> ((DigitsValue(SubSeq(text, 12, 13)) * 60
                        + DigitsValue(SubSeq(text, 15, 16))) * 60
                        + DigitsValue(SubSeq(text, 18, 19))) * 1000
                    + DigitsValue(SubSeq(text, 21, 23))]
    ELSE InvalidDate

\* A value of a NUMERIC(10, 2) column: rounded to two decimals, halves away
\* from zero.
Numeric2(x) ==
    IF x.kind # "num" THEN x
    ELSE IF x.num >= 0
    THEN Num((x.num * 200 + x.den) \div (2 * x.den), 100)
    ELSE Num(-(((-x.num) * 200 + x.den) \div (2 * x.den)), 100)

\* The row handleFileUpload builds for a parsed activity (lines 95 - 106).
CsvRow(a) ==
    [strava_id      |-> ISOText(a.date) \o <<"-">> \o a.name,
     activity_date  |-> ISOText(a.date),
     name           |-> a.name,
     distance_km    |-> a.distanceKm,
     elapsed_time   |-> a.elapsedTime,
     moving_time    |-> a.movingTime,
     elevation_gain |-> a.elevationGain,
     avg_heart_rate |-> a.avgHeartRate,
     max_heart_rate |-> a.maxHeartRate]

\* The row handleGPXUpload builds for the activity (lines 144 - 155).
GpxRow(activity) ==
    [strava_id      |-> activity.id,
     activity_date  |-> ISOText(activity.date),
     name           |-> activity.name,
     distance_km    |-> activity.distanceKm,
     elapsed_time   |-> activity.elapsedTime,
     moving_time    |-> activity.movingTime,
     elevation_gain |-> activity.elevationGain,
     avg_heart_rate |-> activity.avgHeartRate,
     max_heart_rate |-> activity.maxHeartRate]

\* The activity loadActivities makes of a row of the table (lines 64 - 75).
LoadedActivity(row) ==
    [id            |-> row.strava_id,
     date          |-> DateOfISOText(row.activity_date),
     name          |-> row.name,
     type          |-> StrRun,
     distanceKm    |-> row.distance_km,
     elapsedTime   |-> row.elapsed_time,
     movingTime    |-> row.moving_time,
     elevationGain |-> OrElse(row.elevation_gain, Zero),
     avgHeartRate  |-> row.avg_heart_rate,
     maxHeartRate  |-> row.max_heart_rate]

\* The table refuses a statement with a row that breaks a column
\* constraint (distance_km NUMERIC NOT NULL, elapsed_time and moving_time
\* INTEGER NOT NULL) or with two rows of the same conflict key.
RowsRefused(rows) ==
    \/ \E i \in 1..Len(rows) :
          \/ ~IsNumber(rows[i].distance_km)
          \/ ~IsInteger(rows[i].elapsed_time)
          \/ ~IsInteger(rows[i].moving_time)
    \/ \E i, j \in 1..Len(rows) : i # j /\ rows[i].strava_id = rows[j].strava_id

\* The row as the table keeps it.
StoredRow(row) ==
    [row EXCEPT !.distance_km = Numeric2(@),
                !.elevation_gain = Numeric2(@)]

\* upsert(rows, { onConflict: "user_id,strava_id" }) on the rows `table` of
\* the user: a row of the same strava_id is replaced, any other is added.
Upsert(table, rows) ==
    {r \in table : \A i \in 1..Len(rows) : rows[i].strava_id # r.strava_id}
        \cup {StoredRow(rows[i]) : i \in 1..Len(rows)}

\* .order("activity_date", { ascending: true }): the rows in every order
\* the table may return them in, rows of the same instant in any order.
RECURSIVE Orderings(_)
Orderings(S) ==
    IF S = {} THEN {<<>>}
    ELSE UNION {{<<r>> \o rest : rest \in Orderings(S \ {r})} : r \in S}

OrderedByDate(table) ==
    {s \in Orderings(table) :
        \A k \in 1..(Len(s) - 1) :
            TimeDiff(DateOfISOText(s[k].activity_date),
                     DateOfISOText(s[k + 1].activity_date)) \in {"neg", "zero"}}

\* data.map(row => ...)
MapLoaded(data) == [k \in 1..Len(data) |-> LoadedActivity(data[k])]

\* parsedActivities.map(a => ...)
MapCsvRows(parsed) == [k \in 1..Len(parsed) |-> CsvRow(parsed[k])]

\* Variant of AddAndSort: the activity is appended and the list left as it is.
AddUnsorted(prev, activity) == {Append(prev, activity)}

\* [...prev, activity].sort((a, b) => a.date.getTime() - b.date.getTime()):
\* the lists the sort can produce.
AddAndSort(prev, activity) ==
    SortOutcomes(Append(prev, activity), ByDate(Append(prev, activity)))

(***************************************************************************)
(* The tables user_roles and activities and their row-level-security       *)
(* policies (supabase/migrations).  uid is auth.uid(), the user who runs   *)
(* the statement.                                                          *)
(***************************************************************************)
\* public.has_role(_user_id, _role), evaluated on the table `roles`.
has_role(roles, user_id, role) ==
    \E r \in roles : r.user_id = user_id /\ r.role = role

\* "Users can view their own activities": FOR SELECT USING (...)
ActivitiesSelectUsing(roles, uid, row) ==
    uid = row.user_id \/ has_role(roles, uid, "admin")

\* "Users can insert their own activities": FOR INSERT WITH CHECK (...)
ActivitiesInsertCheck(roles, uid, row) == uid = row.user_id

\* "Users can update their own activities": FOR UPDATE USING (...); without
\* a WITH CHECK clause the same expression is applied to the new row.
ActivitiesUpdateUsing(roles, uid, row) ==
    uid = row.user_id \/ has_role(roles, uid, "admin")

\* "Users can delete their own activities": FOR DELETE USING (...)
ActivitiesDeleteUsing(roles, uid, row) ==
    uid = row.user_id \/ has_role(roles, uid, "admin")

\* "Admins can manage roles": FOR ALL USING (...), applied to the rows a
\* statement reads and to the rows it writes.
UserRolesManageUsing(roles, uid, row) == has_role(roles, uid, "admin")

\* UNIQUE (user_id, strava_id): the row has the key of a row of `table`.
KeyTaken(table, row) ==
    \E r \in table : r.user_id = row.user_id /\ r.strava_id = row.strava_id

(***************************************************************************)
(* The handler of the function admin-invite-user                           *)
(* (supabase/functions/admin-invite-user/index.ts), split where it awaits. *)
(***************************************************************************)
StrUser  == <<"u", "s", "e", "r">>
StrAdmin == <<"a", "d", "m", "i", "n">>

\* [^\s@]+ on the characters lo .. hi of s
NoSpaceNoAt(s, lo, hi) ==
    lo <= hi /\ \A k \in lo..hi : s[k] \notin WhiteSpace \cup {"@"}

\* /^[^\s@]+@[^\s@]+\.[^\s@]+$/.test(email)
emailRegexTest(email) ==
    \E i, j \in 1..Len(email) :
        /\ email[i] = "@"
        /\ email[j] = "."
        /\ NoSpaceNoAt(email, 1, i - 1)
        /\ NoSpaceNoAt(email, i + 1, j - 1)
        /\ NoSpaceNoAt(email, j + 1, Len(email))

\* const { email, role = "user" } = body: the default of role.
RoleOf(body) == IF body.role.given THEN body.role.text ELSE StrUser

\* No user: the null of data.user.
NoUser == [found |-> FALSE]

\* adminClient.auth.getUser(token): the user the token belongs to, or an
\* error with no user.
GetUser(users, token, fault) ==
    IF ~fault /\ \E u \in users : u.id = token
    THEN [found |-> TRUE, id |-> token]
    ELSE NoUser

\* Variant of Unauthorized: only the error of the call is looked at.
UnauthorizedOnErrorOnly(isAdmin, roleError) == roleError

\* roleError || !isAdmin
Unauthorized(isAdmin, roleError) == roleError \/ ~isAdmin

\* The status of the answer to a body that names no invitation to send
\* (lines 64 - 86), 0 when the body passes.
BodyStatus(body) ==
    IF body.email = <<>> THEN 400
    ELSE IF ~emailRegexTest(body.email) THEN 400
    ELSE IF RoleOf(body) # StrUser /\ RoleOf(body) # StrAdmin THEN 400
    ELSE 0

\* handle_new_user_role(): the role the trigger gives a new row of
\* auth.users.
AdminEmail ==
    <<"a", "d", "m", "i", "n", "@", "e", "m", "a", "i", "l", ".", "c", "o", "m">>

handle_new_user_role(new) ==
    [user_id |-> new.id, role |-> IF new.email = AdminEmail THEN "admin" ELSE "user"]

\* .from("user_roles").update({ role: "admin" }).eq("user_id", id)
UpdateRoleToAdmin(roles, id) ==
    {IF r.user_id = id THEN [r EXCEPT !.role = "admin"] ELSE r : r \in roles}

(***************************************************************************)
(* The texts parseCSV is applied to                                        *)
(***************************************************************************)
MaxRows == 2
MaxScanLen == 7

HeaderStd  == <<"A", "c", "t", "i", "v", "i", "t", "y", SPACE, "I", "D", COMMA, "A", "c", "t", "i", "v", "i", "t", "y", SPACE, "D", "a", "t", "e", COMMA, "A", "c", "t", "i", "v", "i", "t", "y", SPACE, "N", "a", "m", "e", COMMA, "A", "c", "t", "i", "v", "i", "t", "y", SPACE, "T", "y", "p", "e">>
HeaderNoId == <<"I", "D", COMMA, "A", "c", "t", "i", "v", "i", "t", "y", SPACE, "D", "a", "t", "e", COMMA, "A", "c", "t", "i", "v", "i", "t", "y", SPACE, "N", "a", "m", "e", COMMA, "A", "c", "t", "i", "v", "i", "t", "y", SPACE, "T", "y", "p", "e">>

CRLF == <<CR, LF>>

\* Cell texts of the data rows.
IdOne   == <<"1">>
IdTwo   == <<"2", "2">>
IdAlpha == <<"7", "b">>
DateSun == <<"3", "1", SPACE, "D", "e", "c", SPACE, "2", "0", "2", "3", COMMA, SPACE, "2", "3", ":", "5", "9", ":", "5", "9">>
DateMon == <<"1", SPACE, "J", "a", "n", SPACE, "2", "0", "2", "4", COMMA, SPACE, "1", "0", ":", "0", "0", ":", "0", "0">>
DateNxt == <<"8", SPACE, "J", "a", "n", SPACE, "2", "0", "2", "4", SPACE, "9", ":", "0", "5">>
DateBad == <<"s", "o", "o", "n">>
NamePlain == <<"a">>
NameMultiLine == <<QUOTE, "b", LF, "c", QUOTE>>
StrRide == <<"R", "i", "d", "e">>
Dist5000 == <<"5", "0", "0", "0">>
Dist7000 == <<"7", "0", "0", "0", ".", "5">>
DistZero == <<"0">>
DistNeg  == <<"-", "3">>
DistText == <<"x">>

Row(id, date, name, type, dist, short, term) ==
    [id |-> id, date |-> date, name |-> name, type |-> type, dist |-> dist,
     short |-> short, term |-> term]

\* Rows that differ from a plain "Run" row of 5000 m in one respect each.
RowChoices ==
    {Row(id, date, NamePlain, StrRun, Dist5000, FALSE, <<LF>>) :
        id \in {IdOne, IdTwo}, date \in {DateMon, DateNxt, DateBad}}
    \cup {Row(IdOne, DateSun, NamePlain, StrRun, Dist7000, FALSE, CRLF),
          Row(IdTwo, DateMon, NameMultiLine, StrRun, Dist5000, FALSE, <<LF>>),
          Row(IdOne, DateNxt, <<>>, StrRun, Dist5000, FALSE, <<CR>>),
          Row(IdTwo, DateSun, NamePlain, StrRun, Dist5000, FALSE, <<>>),
          Row(IdOne, DateMon, NamePlain, StrRide, Dist5000, FALSE, <<LF>>),
          Row(IdOne, DateMon, NamePlain, StrRun, DistZero, FALSE, <<LF>>),
          Row(IdOne, DateMon, NamePlain, StrRun, DistNeg, FALSE, <<LF>>),
          Row(IdOne, DateMon, NamePlain, StrRun, DistText, FALSE, <<LF>>),
          Row(IdOne, DateMon, NamePlain, StrRun, <<>>, FALSE, <<LF>>),
          Row(IdAlpha, DateMon, NamePlain, StrRun, Dist5000, FALSE, <<LF>>),
          Row(<<>>, DateMon, NamePlain, StrRun, Dist5000, FALSE, <<LF>>),
          Row(IdOne, DateMon, NamePlain, StrRun, Dist5000, TRUE, <<LF>>)}

RECURSIVE Commas(_)
Commas(n) == IF n = 0 THEN <<>> ELSE <<COMMA>> \o Commas(n - 1)

\* The line of a data row: identifier, quoted date, name and type in columns
\* 0..3, elapsed and moving time in 15 and 16, the distance in meters in 17.
\* A short row stops after the date.
RenderRow(r) ==
    IF r.short
    THEN r.id \o <<COMMA, QUOTE>> \o r.date \o <<QUOTE>> \o r.term
    ELSE r.id \o <<COMMA, QUOTE>> \o r.date \o <<QUOTE, COMMA>> \o r.name
         \o <<COMMA>> \o r.type \o Commas(elapsedTimeIdx - 3) \o <<"6", "0">>
         \o <<COMMA>> \o <<"6", "0">> \o <<COMMA>> \o r.dist \o r.term

EndsLine(text) == IF text = <<>> THEN TRUE ELSE text[Len(text)] \in {LF, CR}

ScanAlphabet == {QUOTE, COMMA, LF, CR, "a"}

NoFilter == "none"

(***************************************************************************)
(* Actions                                                                 *)
(***************************************************************************)
NoStats == [called |-> FALSE]

EmptyDoc == [throws |-> FALSE, tracks |-> <<>>]

\* The clock when the model starts: 1 Jan 2024, 10:10:01.500.
Clock0 == [valid |-> TRUE, day |-> 19723, ms |-> 36601500]

DashIdle ==
    /\ store = {}
    /\ allActivities = <<>>
    /\ loading = FALSE
    /\ inflight = EmptyBag
    /\ opCount = 0

GpxIdle ==
    /\ gpxDoc = EmptyDoc
    /\ gpxName = <<>>
    /\ now = Clock0
    /\ gpxPc = "off"
    /\ gpxOut = <<>>

WeekIdle == wkInput = <<>> /\ wkPc = "off" /\ weeks = <<>> /\ stats = NoStats

NoDate == [called |-> FALSE]

DateIdle == dateField = [text |-> <<>>] /\ dateOut = NoDate

NoStmt == [op |-> "none"]

DbIdle == userRoles = {} /\ activityRows = {} /\ lastStmt = NoStmt /\ stmtCount = 0

NoReq == [method |-> "none"]

FnIdle ==
    /\ authUsers = {}
    /\ req = NoReq
    /\ fnPc = "off"
    /\ fnUser = NoUser
    /\ fnInvited = NoUser
    /\ fnResp = 0
    /\ invitesSent = {}
    /\ reqCount = 0

InitCsv ==
    \E h \in {<<>>, HeaderStd, HeaderNoId}, eol \in {<<LF>>, CRLF} :
        /\ header = h
        /\ csvText = IF h = <<>> THEN <<>> ELSE h \o eol

Init ==
    /\ InitCsv
    /\ rowsIn = <<>>
    /\ wanted = NoFilter
    /\ pc = "input"
    /\ records = <<>>
    /\ result = <<>>
    /\ WeekIdle
    /\ GpxIdle
    /\ DashIdle
    /\ DateIdle /\ DbIdle /\ FnIdle

\* One more data row is written at the end of the file.
AppendRow ==
    /\ pc = "input"
    /\ Len(rowsIn) < MaxRows
    /\ EndsLine(csvText)
    /\ \E r \in RowChoices :
        /\ csvText' = csvText \o RenderRow(r)
        /\ rowsIn' = Append(rowsIn, r)
    /\ UNCHANGED <<header, wanted, pc, records, result, wkInput, wkPc, weeks, stats,
                   gpxVars, dashVars, dateVars, dbVars, fnVars>>

\* parseCSV(csvText) is called and returns.  The caller's category filter is
\* not among its parameters.
CallParseCSV ==
    /\ pc = "input"
    /\ \E f \in {NoFilter, StrRun} : wanted' = f
    /\ records' = ScanRecords(csvText)
    /\ result' \in parseCSV(csvText)
    /\ pc' = "parsed"
    /\ UNCHANGED <<csvText, header, rowsIn, wkInput, wkPc, weeks, stats,
                   gpxVars, dashVars, dateVars, dbVars, fnVars>>

Next == AppendRow \/ CallParseCSV

Spec == Init /\ [][Next]_vars

\* The scanner on arbitrary short texts over its special characters.
InitScan ==
    /\ csvText = <<>>
    /\ header = <<>>
    /\ rowsIn = <<>>
    /\ wanted = NoFilter
    /\ pc = "input"
    /\ records = <<>>
    /\ result = <<>>
    /\ WeekIdle
    /\ GpxIdle
    /\ DashIdle
    /\ DateIdle /\ DbIdle /\ FnIdle

AppendChar ==
    /\ pc = "input"
    /\ Len(csvText) < MaxScanLen
    /\ \E c \in ScanAlphabet : csvText' = Append(csvText, c)
    /\ UNCHANGED <<header, rowsIn, wanted, pc, records, result, wkInput, wkPc, weeks, stats,
                   gpxVars, dashVars, dateVars, dbVars, fnVars>>

NextScan == AppendChar \/ CallParseCSV

SpecScan == InitScan /\ [][NextScan]_vars

\* groupByWeek on arbitrary short activity sequences, in any order.
MaxActs == 3

WeekDates ==
    {[valid |-> TRUE, day |-> 19722, ms |-> 86399000],   \* Sun 31 Dec 2023
     [valid |-> TRUE, day |-> 19723, ms |-> 0],          \* Mon  1 Jan 2024
     [valid |-> TRUE, day |-> 19723, ms |-> 36000000],   \* Mon  1 Jan 2024
     [valid |-> TRUE, day |-> 19729, ms |-> 36000000],   \* Sun  7 Jan 2024
     [valid |-> TRUE, day |-> 19730, ms |-> 32700000],   \* Mon  8 Jan 2024
     InvalidDate}

WeekKms == {Num(5, 1), Num(14001, 2000)}

MakeActivity(id, date, km) ==
    [id            |-> id,
     date          |-> date,
     name          |-> StrUnknownActivity,
     type          |-> StrRun,
     distanceKm    |-> km,
     elapsedTime   |-> Zero,
     movingTime    |-> Zero,
     elevationGain |-> Zero,
     avgHeartRate  |-> Null,
     maxHeartRate  |-> Null]

CsvIdle ==
    /\ csvText = <<>>
    /\ header = <<>>
    /\ rowsIn = <<>>
    /\ wanted = NoFilter
    /\ pc = "off"
    /\ records = <<>>
    /\ result = <<>>

InitWeek ==
    /\ CsvIdle /\ GpxIdle /\ DashIdle
    /\ DateIdle /\ DbIdle /\ FnIdle
    /\ wkInput = <<>> /\ wkPc = "input" /\ weeks = <<>> /\ stats = NoStats

\* One more activity, with the next identifier, at the end of the input.
AppendActivity ==
    /\ wkPc = "input"
    /\ Len(wkInput) < MaxActs
    /\ \E date \in WeekDates, km \in WeekKms :
          wkInput' = Append(wkInput,
                            MakeActivity(DigitsOf(Len(wkInput) + 1), date, km))
    /\ UNCHANGED <<csvText, header, rowsIn, wanted, pc, records, result, wkPc, weeks, stats,
                   gpxVars, dashVars, dateVars, dbVars, fnVars>>

\* groupByWeek(wkInput) is called; it returns or raises.
CallGroupByWeek ==
    /\ wkPc = "input"
    /\ LET out == groupByWeek(wkInput) IN
          /\ wkPc' = IF out.threw THEN "threw" ELSE "grouped"
          /\ weeks' \in out.weeks
    /\ UNCHANGED <<csvText, header, rowsIn, wanted, pc, records, result, wkInput, stats,
                   gpxVars, dashVars, dateVars, dbVars, fnVars>>

NextWeek == AppendActivity \/ CallGroupByWeek

SpecWeek == InitWeek /\ [][NextWeek]_vars

\* groupByWeek on activities of every day of a stretch of calendar days
\* around a turn of the year, early and late in the day.
MaxCalActs == 2
CalSpan == 14

\* Thursday 26 Dec 2024, the first day of the stretch.
CalFirst == DayNumber(2024, 11, 26)

CalDates ==
    {[valid |-> TRUE, day |-> CalFirst + k, ms |-> ms] :
        k \in 0..(CalSpan - 1), ms \in {0, MsPerDay - 1}}

AppendCalActivity ==
    /\ wkPc = "input"
    /\ Len(wkInput) < MaxCalActs
    /\ \E date \in CalDates :
          wkInput' = Append(wkInput,
                            MakeActivity(DigitsOf(Len(wkInput) + 1), date, Num(5, 1)))
    /\ UNCHANGED <<csvText, header, rowsIn, wanted, pc, records, result, wkPc, weeks, stats,
                   gpxVars, dashVars, dateVars, dbVars, fnVars>>

NextCal == AppendCalActivity \/ CallGroupByWeek

SpecCal == InitWeek /\ [][NextCal]_vars

\* groupByWeek and then calculateStats, as the Dashboard applies them, on
\* short activity sequences of two categories.
MaxStatActs == 3

StatDates ==
    {[valid |-> TRUE, day |-> 19723, ms |-> 36000000],   \* Mon  1 Jan 2024
     [valid |-> TRUE, day |-> 19729, ms |-> 36000000],   \* Sun  7 Jan 2024
     [valid |-> TRUE, day |-> 19730, ms |-> 32700000]}   \* Mon  8 Jan 2024

StatTypes == {StrRun, StrRide}

AppendStatActivity ==
    /\ wkPc = "input"
    /\ Len(wkInput) < MaxStatActs
    /\ \E date \in StatDates, km \in WeekKms, type \in StatTypes :
          wkInput' = Append(wkInput,
              [MakeActivity(DigitsOf(Len(wkInput) + 1), date, km)
                  EXCEPT !.type = type])
    /\ UNCHANGED <<csvText, header, rowsIn, wanted, pc, records, result, wkPc, weeks, stats,
                   gpxVars, dashVars, dateVars, dbVars, fnVars>>

\* calculateStats(filtered, groupedWeeks) on what groupByWeek returned.
CallCalculateStats ==
    /\ wkPc = "grouped"
    /\ stats = NoStats
    /\ stats' = calculateStats(wkInput, weeks)
    /\ UNCHANGED <<csvText, header, rowsIn, wanted, pc, records, result, wkInput, wkPc, weeks,
                   gpxVars, dashVars, dateVars, dbVars, fnVars>>

NextStats == AppendStatActivity \/ CallGroupByWeek \/ CallCalculateStats

SpecStats == InitWeek /\ [][NextStats]_vars

\* parseGPX on the documents the library can make of a GPX text.
MaxTracks == 2
MaxPoints == 3
MaxTicks == 1
MaxParses == 2

\* A tick of the clock, in milliseconds.
TickMs == 1500

TrackChoices ==
    {[name |-> <<"T">>, points |-> <<>>, hasDistance |-> TRUE,
      distance |-> Num(1000, 1), hasElevation |-> TRUE, elevationPos |-> Num(12, 1)],
     [name |-> <<>>, points |-> <<>>, hasDistance |-> TRUE,
      distance |-> Zero, hasElevation |-> FALSE, elevationPos |-> Zero],
     [name |-> <<>>, points |-> <<>>, hasDistance |-> FALSE,
      distance |-> Zero, hasElevation |-> FALSE, elevationPos |-> Zero]}

\* Points without a time, at 10:00:00 and at 10:10:00 on 1 Jan 2024, and
\* with a time text that is no date.
PointChoices ==
    {[hasTime |-> FALSE, time |-> InvalidDate],
     [hasTime |-> TRUE, time |-> [valid |-> TRUE, day |-> 19723, ms |-> 36000000]],
     [hasTime |-> TRUE, time |-> [valid |-> TRUE, day |-> 19723, ms |-> 36600000]],
     [hasTime |-> TRUE, time |-> InvalidDate]}

FileNames == {<<"r", SPACE, "1", ".", "G", "P", "X">>, <<".", "g", "p", "x">>}

\* The tracks that follow the first one in a document: one of two timed
\* points, and one without points.
LaterTracks ==
    {[name |-> <<"U">>,
      points |-> <<[hasTime |-> TRUE,
                    time |-> [valid |-> TRUE, day |-> 19723, ms |-> 36000000]],
                   [hasTime |-> TRUE,
                    time |-> [valid |-> TRUE, day |-> 19723, ms |-> 36600000]]>>,
      hasDistance |-> TRUE, distance |-> Num(2000, 1),
      hasElevation |-> TRUE, elevationPos |-> Num(12, 1)],
     [name |-> <<>>, points |-> <<>>, hasDistance |-> TRUE,
      distance |-> Zero, hasElevation |-> FALSE, elevationPos |-> Zero]}

InitGpx ==
    /\ CsvIdle /\ WeekIdle /\ DashIdle
    /\ DateIdle /\ DbIdle /\ FnIdle
    /\ gpxDoc = EmptyDoc
    /\ gpxName \in FileNames
    /\ now = Clock0
    /\ gpxPc = "input"
    /\ gpxOut = <<>>

GpxOthers == <<csvText, header, rowsIn, wanted, pc, records, result, wkInput, wkPc,
               weeks, stats, dashVars, dateVars, dbVars, fnVars>>

\* The text is no well-formed document: the library raises on it.
Malform ==
    /\ gpxPc = "input"
    /\ gpxDoc = EmptyDoc
    /\ gpxDoc' = [gpxDoc EXCEPT !.throws = TRUE]
    /\ UNCHANGED <<gpxName, now, gpxPc, gpxOut, GpxOthers>>

\* One more track at the end of the document: the first one still without
\* points, a later one complete.
AddTrack ==
    /\ gpxPc = "input"
    /\ ~gpxDoc.throws
    /\ Len(gpxDoc.tracks) < MaxTracks
    /\ \E tr \in (IF gpxDoc.tracks = <<>> THEN TrackChoices ELSE LaterTracks) :
          gpxDoc' = [gpxDoc EXCEPT !.tracks = Append(@, tr)]
    /\ UNCHANGED <<gpxName, now, gpxPc, gpxOut, GpxOthers>>

\* One more point at the end of the first track.
AddPoint ==
    /\ gpxPc = "input"
    /\ Len(gpxDoc.tracks) > 0
    /\ Len(gpxDoc.tracks[1].points) < MaxPoints
    /\ \E pt \in PointChoices :
          gpxDoc' = [gpxDoc EXCEPT !.tracks[1].points = Append(@, pt)]
    /\ UNCHANGED <<gpxName, now, gpxPc, gpxOut, GpxOthers>>

\* Time passes.
Tick ==
    /\ gpxPc \in {"input", "parsed"}
    /\ now.ms < Clock0.ms + MaxTicks * TickMs
    /\ now' = [now EXCEPT !.ms = @ + TickMs]
    /\ UNCHANGED <<gpxDoc, gpxName, gpxPc, gpxOut, GpxOthers>>

\* parseGPX(gpxText, file.name) is called; it returns or raises.
CallParseGPX ==
    /\ gpxPc \in {"input", "parsed"}
    /\ Len(gpxOut) < MaxParses
    /\ gpxOut' = Append(gpxOut, [at |-> now, out |-> parseGPX(gpxDoc, gpxName, now)])
    /\ gpxPc' = "parsed"
    /\ UNCHANGED <<gpxDoc, gpxName, now, GpxOthers>>

NextGpx == Malform \/ AddTrack \/ AddPoint \/ Tick \/ CallParseGPX

SpecGpx == InitGpx /\ [][NextGpx]_vars

\* The Dashboard of a signed-in user: loads and uploads, started and
\* answered in any order.
MaxOps == 3

DashOthers == <<csvText, header, rowsIn, wanted, pc, records, result, wkInput, wkPc,
                weeks, stats, gpxVars, dateVars, dbVars, fnVars>>

\* The CSV files that are uploaded: two runs with the later one first, a
\* run whose date is no date, one run on 31 Dec 2023, and two runs that
\* carry the same Activity ID.
CsvFiles ==
    {HeaderStd \o <<LF>>
        \o RenderRow(Row(IdOne, DateNxt, NamePlain, StrRun, Dist5000, FALSE, <<LF>>))
        \o RenderRow(Row(IdTwo, DateMon, NamePlain, StrRun, Dist7000, FALSE, <<LF>>)),
     HeaderStd \o <<LF>>
        \o RenderRow(Row(IdOne, DateBad, NamePlain, StrRun, Dist5000, FALSE, <<LF>>)),
     HeaderStd \o <<LF>>
        \o RenderRow(Row(IdOne, DateSun, NamePlain, StrRun, Dist5000, FALSE, <<LF>>)),
     HeaderStd \o <<LF>>
        \o RenderRow(Row(IdTwo, DateSun, NamePlain, StrRun, Dist5000, FALSE, <<LF>>))
        \o RenderRow(Row(IdTwo, DateMon, NamePlain, StrRun, Dist7000, FALSE, <<LF>>))}

TimedPoint(ms) ==
    [hasTime |-> TRUE, time |-> [valid |-> TRUE, day |-> 19723, ms |-> ms]]

GpxTrack(points) ==
    [name |-> <<"T">>, points |-> points, hasDistance |-> TRUE,
     distance |-> Num(1000, 1), hasElevation |-> TRUE, elevationPos |-> Num(12, 1)]

\* The GPX files that are uploaded: a track recorded on 1 Jan 2024 from
\* 10:00:00 to 10:10:00, a track without times, a track whose first time is
\* no date, and a track of one point.
GpxFiles ==
    {[throws |-> FALSE,
      tracks |-> <<GpxTrack(<<TimedPoint(36000000), TimedPoint(36600000)>>)>>],
     [throws |-> FALSE,
      tracks |-> <<GpxTrack(<<[hasTime |-> FALSE, time |-> InvalidDate],
                              [hasTime |-> FALSE, time |-> InvalidDate]>>)>>],
     [throws |-> FALSE,
      tracks |-> <<GpxTrack(<<[hasTime |-> TRUE, time |-> InvalidDate],
                              TimedPoint(36600000)>>)>>],
     [throws |-> FALSE, tracks |-> <<GpxTrack(<<TimedPoint(36000000)>>)>>]}

GpxFileName == <<"r", SPACE, "1", ".", "G", "P", "X">>

\* Rows the table holds before the Dashboard is opened.
EarlierRow(id, day) ==
    StoredRow(GpxRow(MakeActivity(id, [valid |-> TRUE, day |-> day, ms |-> 0],
                                  Num(5, 1))))

InitialStores ==
    {{},
     {EarlierRow(<<"8">>, 19730)},
     {EarlierRow(<<"8">>, 19730), EarlierRow(<<"9">>, 19716)}}

InitDash ==
    /\ CsvIdle /\ WeekIdle /\ GpxIdle
    /\ DateIdle /\ DbIdle /\ FnIdle
    /\ store \in InitialStores
    /\ allActivities = <<>>
    /\ loading = TRUE
    /\ inflight = EmptyBag
    /\ opCount = 0

\* A handler that waits for the store, with what it holds meanwhile.
Waiting(kind, error, payload) == [kind |-> kind, error |-> error, payload |-> payload]

\* loadActivities up to its await: the store answers the query with an
\* error or with the rows of the user ordered by activity_date.
LoadStart ==
    /\ opCount < MaxOps
    /\ \E error \in BOOLEAN, data \in OrderedByDate(store) :
          inflight' = inflight (+) SetToBag({Waiting("load", error,
                                    IF error THEN <<>> ELSE data)})
    /\ opCount' = opCount + 1
    /\ UNCHANGED <<store, allActivities, loading, DashOthers>>

\* loadActivities after its await.
LoadDone ==
    /\ \E op \in BagToSet(inflight) :
          /\ op.kind = "load"
          /\ inflight' = inflight (-) SetToBag({op})
          /\ allActivities' = IF ~op.error /\ Len(op.payload) > 0
                              THEN MapLoaded(op.payload)
                              ELSE allActivities
    /\ loading' = FALSE
    /\ UNCHANGED <<store, opCount, DashOthers>>

\* handleFileUpload and reader.onload up to the await of the upsert.  An
\* activity whose date is invalid makes toISOString raise: the handler ends
\* there.  Otherwise the store takes the rows or answers with an error.
CsvUploadStart ==
    /\ opCount < MaxOps
    /\ opCount' = opCount + 1
    /\ loading' = TRUE
    /\ \E text \in CsvFiles : \E parsed \in parseCSV(text) :
          IF \E k \in 1..Len(parsed) : ~parsed[k].date.valid
          THEN UNCHANGED <<store, inflight>>
          ELSE \E error \in BOOLEAN :
                  /\ RowsRefused(MapCsvRows(parsed)) => error
                  /\ store' = IF error THEN store
                              ELSE Upsert(store, MapCsvRows(parsed))
                  /\ inflight' = inflight (+) SetToBag({Waiting("csv", error, parsed)})
    /\ UNCHANGED <<allActivities, DashOthers>>

\* reader.onload of handleFileUpload after the await.
CsvUploadDone ==
    /\ \E op \in BagToSet(inflight) :
          /\ op.kind = "csv"
          /\ inflight' = inflight (-) SetToBag({op})
          /\ allActivities' = op.payload
    /\ loading' = FALSE
    /\ UNCHANGED <<store, opCount, DashOthers>>

\* handleGPXUpload and reader.onload up to the await of the upsert: the
\* parse error ends the handler, and so does the RangeError of toISOString.
GpxUploadStart ==
    /\ opCount < MaxOps
    /\ opCount' = opCount + 1
    /\ \E doc \in GpxFiles :
          LET out == parseGPX(doc, GpxFileName, now).value IN
          IF "error" \in DOMAIN out
          THEN loading' = FALSE /\ UNCHANGED <<store, inflight>>
          ELSE IF ~out.activity.date.valid
          THEN loading' = TRUE /\ UNCHANGED <<store, inflight>>
          ELSE \E error \in BOOLEAN :
                  /\ RowsRefused(<<GpxRow(out.activity)>>) => error
                  /\ loading' = TRUE
                  /\ store' = IF error THEN store
                              ELSE Upsert(store, <<GpxRow(out.activity)>>)
                  /\ inflight' = inflight (+)
                        SetToBag({Waiting("gpx", error, <<out.activity>>)})
    /\ UNCHANGED <<allActivities, DashOthers>>

\* reader.onload of handleGPXUpload after the await.
GpxUploadDone ==
    /\ \E op \in BagToSet(inflight) :
          /\ op.kind = "gpx"
          /\ inflight' = inflight (-) SetToBag({op})
          /\ IF op.error
             THEN allActivities' = allActivities
             ELSE allActivities' \in AddAndSort(allActivities, op.payload[1])
    /\ loading' = FALSE
    /\ UNCHANGED <<store, opCount, DashOthers>>

NextDash ==
    \/ LoadStart \/ LoadDone
    \/ CsvUploadStart \/ CsvUploadDone
    \/ GpxUploadStart \/ GpxUploadDone

SpecDash == InitDash /\ [][NextDash]_vars

\* parseDate on its own.  A date cell is written from a day, a month word, a
\* year and a time of day, each kept with the number it stands for, or it is
\* one of a few other texts.
DayChoices ==
    {[text |-> <<"1">>, n |-> 1],
     [text |-> <<"0", "5">>, n |-> 5],
     [text |-> <<"2", "7">>, n |-> 27]}

\* Month words: n is the month the word names (0 = January, -1 = none),
\* abbrev tells whether it is one of Jan .. Dec or Sept.
MonthChoices ==
    {[text |-> <<"J", "a", "n">>, n |-> 0, abbrev |-> TRUE],
     [text |-> <<"F", "e", "b">>, n |-> 1, abbrev |-> TRUE],
     [text |-> <<"S", "e", "p">>, n |-> 8, abbrev |-> TRUE],
     [text |-> <<"S", "e", "p", "t">>, n |-> 8, abbrev |-> TRUE],
     [text |-> <<"D", "e", "c">>, n |-> 11, abbrev |-> TRUE],
     [text |-> <<"O", "c", "t", "o", "b", "e", "r">>, n |-> 9, abbrev |-> FALSE],
     [text |-> <<"d", "e", "c">>, n |-> 11, abbrev |-> FALSE],
     [text |-> <<"F", "o", "o">>, n |-> -1, abbrev |-> FALSE]}

YearChoices ==
    {[text |-> <<"2", "0", "1", "9">>, n |-> 2019],
     [text |-> <<"2", "0", "2", "4">>, n |-> 2024]}

TimeChoices ==
    {[text |-> <<"9", ":", "0", "5">>, h |-> 9, mi |-> 5, sec |-> 0],
     [text |-> <<"1", "1", ":", "0", "2", ":", "4", "3">>, h |-> 11, mi |-> 2, sec |-> 43],
     [text |-> <<"2", "3", ":", "5", "9", ":", "5", "9">>, h |-> 23, mi |-> 59, sec |-> 59]}

WrittenDate(day, month, year, comma, time) ==
    [text  |-> day.text \o <<SPACE>> \o month.text \o <<SPACE>> \o year.text
               \o (IF comma THEN <<COMMA>> ELSE <<>>) \o <<SPACE>> \o time.text,
     day   |-> day,
     month |-> month,
     year  |-> year,
     time  |-> time]

\* Texts that are no day-month-year-time cell: the empty cell, a word, and
\* an ISO date.
OtherDateTexts ==
    {<<>>, DateBad, <<"2", "0", "2", "4", "-", "0", "1", "-", "0", "5">>}

DateFields ==
    {WrittenDate(d, m, y, c, t) :
        d \in DayChoices, m \in MonthChoices, y \in YearChoices,
        c \in BOOLEAN, t \in TimeChoices}
    \cup {[text |-> x] : x \in OtherDateTexts}

InitDate ==
    /\ CsvIdle /\ WeekIdle /\ GpxIdle /\ DashIdle
    /\ DbIdle /\ FnIdle
    /\ dateField \in DateFields
    /\ dateOut = NoDate

\* parseDate(values[dateIdx]) is called.
CallParseDate ==
    /\ dateOut = NoDate
    /\ dateOut' = [called |-> TRUE, value |-> parseDate(dateField.text)]
    /\ UNCHANGED <<csvText, header, rowsIn, wanted, pc, records, result, wkInput,
                   wkPc, weeks, stats, gpxVars, dashVars, dateField, dbVars, fnVars>>

NextDate == CallParseDate

SpecDate == InitDate /\ [][NextDate]_vars

\* The tables under the statements of three signed-in users: ann, who holds
\* the admin role, and bob and cat, who hold the role user.
MaxStmts == 3

Users == {"ann", "bob", "cat"}

Names == {<<"a">>, <<"b">>}

\* The rows of activities the statements write: one key per user.
ActivityRows == {[user_id |-> u, strava_id |-> <<"1">>, name |-> n] : u \in Users, n \in Names}

DbOthers == <<csvText, header, rowsIn, wanted, pc, records, result, wkInput, wkPc,
              weeks, stats, gpxVars, dashVars, dateVars, fnVars>>

InitDb ==
    /\ CsvIdle /\ WeekIdle /\ GpxIdle /\ DashIdle
    /\ DateIdle /\ FnIdle
    /\ userRoles = {[user_id |-> "ann", role |-> "admin"],
                    [user_id |-> "bob", role |-> "user"],
                    [user_id |-> "cat", role |-> "user"]}
    /\ activityRows = {}
    /\ lastStmt = NoStmt
    /\ stmtCount = 0

\* The record of a statement: who ran it, whether it took effect, the rows
\* it read or wrote as they were before, and the rows it left.
Ran(op, uid, done, rows, after) ==
    [op |-> op, actor |-> uid, done |-> done, rows |-> rows, after |-> after]

\* SELECT * FROM activities
SelectActivities ==
    /\ stmtCount < MaxStmts
    /\ stmtCount' = stmtCount + 1
    /\ \E uid \in Users :
          lastStmt' = Ran("select", uid, TRUE,
                          {r \in activityRows :
                              ActivitiesSelectUsing(userRoles, uid, r)}, {})
    /\ UNCHANGED <<userRoles, activityRows, DbOthers>>

\* INSERT INTO activities VALUES (row)
InsertActivity ==
    /\ stmtCount < MaxStmts
    /\ stmtCount' = stmtCount + 1
    /\ \E uid \in Users, row \in ActivityRows :
          IF ActivitiesInsertCheck(userRoles, uid, row) /\ ~KeyTaken(activityRows, row)
          THEN /\ activityRows' = activityRows \cup {row}
               /\ lastStmt' = Ran("insert", uid, TRUE, {}, {row})
          ELSE /\ activityRows' = activityRows
               /\ lastStmt' = Ran("insert", uid, FALSE, {}, {})
    /\ UNCHANGED <<userRoles, DbOthers>>

\* UPDATE activities SET user_id = ..., name = ... WHERE id = (that of old):
\* a row the policy hides is not found; a new row the policy refuses, or
\* one whose key is taken, is an error.
UpdateActivity ==
    /\ stmtCount < MaxStmts
    /\ stmtCount' = stmtCount + 1
    /\ \E uid \in Users, old \in activityRows, new \in ActivityRows :
          /\ new # old
          /\ IF /\ ActivitiesUpdateUsing(userRoles, uid, old)
                /\ ActivitiesUpdateUsing(userRoles, uid, new)
                /\ ~KeyTaken(activityRows \ {old}, new)
             THEN /\ activityRows' = (activityRows \ {old}) \cup {new}
                  /\ lastStmt' = Ran("update", uid, TRUE, {old}, {new})
             ELSE /\ activityRows' = activityRows
                  /\ lastStmt' = Ran("update", uid, FALSE, {}, {})
    /\ UNCHANGED <<userRoles, DbOthers>>

\* DELETE FROM activities WHERE id = (that of old)
DeleteActivity ==
    /\ stmtCount < MaxStmts
    /\ stmtCount' = stmtCount + 1
    /\ \E uid \in Users, old \in activityRows :
          IF ActivitiesDeleteUsing(userRoles, uid, old)
          THEN /\ activityRows' = activityRows \ {old}
               /\ lastStmt' = Ran("delete", uid, TRUE, {old}, {})
          ELSE /\ activityRows' = activityRows
               /\ lastStmt' = Ran("delete", uid, FALSE, {}, {})
    /\ UNCHANGED <<userRoles, DbOthers>>

\* INSERT INTO user_roles (user_id, role) VALUES (who, 'admin')
GrantAdmin ==
    /\ stmtCount < MaxStmts
    /\ stmtCount' = stmtCount + 1
    /\ \E uid \in Users, who \in Users :
          LET row == [user_id |-> who, role |-> "admin"] IN
          IF UserRolesManageUsing(userRoles, uid, row) /\ row \notin userRoles
          THEN /\ userRoles' = userRoles \cup {row}
               /\ lastStmt' = Ran("grant", uid, TRUE, {}, {row})
          ELSE /\ userRoles' = userRoles
               /\ lastStmt' = Ran("grant", uid, FALSE, {}, {})
    /\ UNCHANGED <<activityRows, DbOthers>>

\* DELETE FROM user_roles WHERE user_id = who AND role = 'admin'
RevokeAdmin ==
    /\ stmtCount < MaxStmts
    /\ stmtCount' = stmtCount + 1
    /\ \E uid \in Users, who \in Users :
          LET row == [user_id |-> who, role |-> "admin"] IN
          IF UserRolesManageUsing(userRoles, uid, row) /\ row \in userRoles
          THEN /\ userRoles' = userRoles \ {row}
               /\ lastStmt' = Ran("revoke", uid, TRUE, {row}, {})
          ELSE /\ userRoles' = userRoles
               /\ lastStmt' = Ran("revoke", uid, FALSE, {}, {})
    /\ UNCHANGED <<activityRows, DbOthers>>

NextDb ==
    \/ SelectActivities \/ InsertActivity \/ UpdateActivity \/ DeleteActivity
    \/ GrantAdmin \/ RevokeAdmin

SpecDb == InitDb /\ [][NextDb]_vars

\* admin-invite-user, one request after the other.  ann holds the admin
\* role, bob the role user.
MaxReqs == 2

EmailAnn == <<"a", "@", "x", ".", "y">>
EmailBob == <<"b", "@", "x", ".", "y">>
EmailNew == <<"n", ".", "m", "@", "x", ".", "y">>

\* The e-mail addresses of the bodies: none, a new address, the address the
\* trigger makes an admin, one that is registered, and three that are no
\* addresses.
BodyEmails ==
    {<<>>, EmailNew, AdminEmail, EmailBob,
     <<"n", "@", "x">>, <<"n", SPACE, "m", "@", "x", ".", "y">>,
     <<"n", "@", "@", "x", ".", "y">>}

BodyRoles ==
    {[given |-> FALSE, text |-> <<>>],
     [given |-> TRUE, text |-> StrUser],
     [given |-> TRUE, text |-> StrAdmin],
     [given |-> TRUE, text |-> <<"r", "o", "o", "t">>]}

Bodies ==
    {[json |-> TRUE, email |-> e, role |-> r] : e \in BodyEmails, r \in BodyRoles}
    \cup {[json |-> FALSE, email |-> <<>>, role |-> [given |-> FALSE, text |-> <<>>]]}

\* The Authorization headers: none, the token of ann, the token of bob, and
\* a token of nobody.
AuthHeaders ==
    {[present |-> FALSE, token |-> "none"]}
    \cup {[present |-> TRUE, token |-> t] : t \in {"ann", "bob", "expired"}}

\* The call of the handler that fails for a reason outside the request.
Faults == {"none", "getUser", "has_role", "invite", "update"}

Requests ==
    {[method |-> "OPTIONS", auth |-> [present |-> FALSE, token |-> "none"],
      body |-> [json |-> FALSE, email |-> <<>>, role |-> [given |-> FALSE, text |-> <<>>]],
      fault |-> "none"]}
    \cup {[method |-> "POST", auth |-> a, body |-> b, fault |-> f] :
             a \in AuthHeaders, b \in Bodies, f \in Faults}

\* The ids auth.users gives the invited users, in order.
NewIds == <<"dan", "eve", "fay", "gus">>

FnOthers == <<csvText, header, rowsIn, wanted, pc, records, result, wkInput, wkPc,
              weeks, stats, gpxVars, dashVars, dateVars, activityRows, lastStmt,
              stmtCount>>

InitInvite ==
    /\ CsvIdle /\ WeekIdle /\ GpxIdle /\ DashIdle /\ DateIdle
    /\ activityRows = {} /\ lastStmt = NoStmt /\ stmtCount = 0
    /\ userRoles = {[user_id |-> "ann", role |-> "admin"],
                    [user_id |-> "bob", role |-> "user"]}
    /\ authUsers = {[id |-> "ann", email |-> EmailAnn],
                    [id |-> "bob", email |-> EmailBob]}
    /\ req = NoReq
    /\ fnPc = "idle"
    /\ fnUser = NoUser
    /\ fnInvited = NoUser
    /\ fnResp = 0
    /\ invitesSent = {}
    /\ reqCount = 0

\* The handler returns a Response of this status.
Respond(status) == fnResp' = status /\ fnPc' = "done"

\* A request arrives: lines 10 - 35, up to the await of getUser.
Receive ==
    /\ fnPc \in {"idle", "done"}
    /\ reqCount < MaxReqs
    /\ reqCount' = reqCount + 1
    /\ \E r \in Requests :
          /\ req' = r
          /\ IF r.method = "OPTIONS" THEN Respond(200)
             ELSE IF ~r.auth.present THEN Respond(401)
             ELSE fnResp' = 0 /\ fnPc' = "getUser"
    /\ fnUser' = NoUser
    /\ fnInvited' = NoUser
    /\ UNCHANGED <<authUsers, userRoles, invitesSent, FnOthers>>

\* Lines 35 - 47: getUser has answered.
AfterGetUser ==
    /\ fnPc = "getUser"
    /\ fnUser' = GetUser(authUsers, req.auth.token, req.fault = "getUser")
    /\ IF ~fnUser'.found THEN Respond(401)
       ELSE fnResp' = fnResp /\ fnPc' = "has_role"
    /\ UNCHANGED <<authUsers, userRoles, req, fnInvited, invitesSent, reqCount,
                   FnOthers>>

\* Lines 47 - 62: the rpc has_role has answered.
AfterHasRole ==
    /\ fnPc = "has_role"
    /\ IF Unauthorized(has_role(userRoles, fnUser.id, "admin"), req.fault = "has_role")
       THEN Respond(403)
       ELSE fnResp' = fnResp /\ fnPc' = "json"
    /\ UNCHANGED <<authUsers, userRoles, req, fnUser, fnInvited, invitesSent,
                   reqCount, FnOthers>>

\* Lines 62 - 91: req.json() has answered, or it has raised and the catch
\* of line 134 answers.
AfterJson ==
    /\ fnPc = "json"
    /\ IF ~req.body.json THEN Respond(500)
       ELSE IF BodyStatus(req.body) # 0 THEN Respond(BodyStatus(req.body))
       ELSE fnResp' = fnResp /\ fnPc' = "invite"
    /\ UNCHANGED <<authUsers, userRoles, req, fnUser, fnInvited, invitesSent,
                   reqCount, FnOthers>>

\* Lines 91 - 108: inviteUserByEmail has answered, with an error (the
\* address is registered already, or the service fails) or with the new
\* user, to whom the trigger has given a role.
AfterInvite ==
    /\ fnPc = "invite"
    /\ IF req.fault = "invite" \/ \E u \in authUsers : u.email = req.body.email
       THEN /\ Respond(400)
            /\ UNCHANGED <<authUsers, userRoles, fnInvited, invitesSent>>
       ELSE LET new == [id |-> NewIds[Cardinality(invitesSent) + 1],
                        email |-> req.body.email]
            IN  /\ authUsers' = authUsers \cup {new}
                /\ userRoles' = userRoles \cup {handle_new_user_role(new)}
                /\ invitesSent' = invitesSent \cup {req.body.email}
                /\ fnInvited' = [found |-> TRUE, id |-> new.id]
                /\ IF RoleOf(req.body) = StrAdmin
                   THEN fnResp' = fnResp /\ fnPc' = "update"
                   ELSE Respond(200)
    /\ UNCHANGED <<req, fnUser, reqCount, FnOthers>>

\* Lines 108 - 132: the update of user_roles has answered; its error is
\* logged and the request succeeds all the same.
AfterUpdate ==
    /\ fnPc = "update"
    /\ userRoles' = IF req.fault = "update" THEN userRoles
                    ELSE UpdateRoleToAdmin(userRoles, fnInvited.id)
    /\ Respond(200)
    /\ UNCHANGED <<authUsers, req, fnUser, fnInvited, invitesSent, reqCount,
                   FnOthers>>

NextInvite ==
    \/ Receive \/ AfterGetUser \/ AfterHasRole \/ AfterJson
    \/ AfterInvite \/ AfterUpdate

SpecInvite == InitInvite /\ [][NextInvite]_vars

(***************************************************************************)
(* What the rows written into csvText mean, read off their cell texts      *)
(***************************************************************************)
\* Kilometers of the distance cells that hold a positive number of meters.
KmOfCell(dist) ==
    CASE dist = Dist5000 -> Num(5, 1)
      [] dist = Dist7000 -> Num(14001, 2000)

PositiveCells == {Dist5000, Dist7000}
DigitIds == {IdOne, IdTwo}

\* The instant a date cell denotes: 1 Jan 2024 is day 19723 after 1 Jan 1970.
DateOfCell(date) ==
    CASE date = DateSun -> [valid |-> TRUE, day |-> 19722, ms |-> 86399000]
      [] date = DateMon -> [valid |-> TRUE, day |-> 19723, ms |-> 36000000]
      [] date = DateNxt -> [valid |-> TRUE, day |-> 19730, ms |-> 32700000]
      [] date = DateBad -> InvalidDate

\* The row has all its columns, a decimal identifier and a positive distance,
\* and its type passes the category filter f.
RowPasses(r, f) ==
    /\ ~r.short
    /\ r.id \in DigitIds
    /\ r.dist \in PositiveCells
    /\ (f = NoFilter \/ r.type = f)

\* Positions in rowsIn of the rows an ingestion with category filter f keeps.
\* Without the standard header line no column is titled "Activity ID".
PassingRows(f) ==
    IF header = HeaderStd
    THEN {i \in 1..Len(rowsIn) : RowPasses(rowsIn[i], f)}
    ELSE {}

\* Activity a is what row r describes.
ActivityOfRow(a, r) ==
    /\ a.id = r.id
    /\ a.type = r.type
    /\ a.date = DateOfCell(r.date)
    /\ a.distanceKm = KmOfCell(r.dist)

\* out holds exactly one activity per row of the set rows.
OnePerRow(out, rows) ==
    \E f \in [1..Len(out) -> rows] :
        /\ \A j, k \in 1..Len(out) : f[j] = f[k] => j = k
        /\ \A i \in rows : \E k \in 1..Len(out) : f[k] = i
        /\ \A k \in 1..Len(out) : ActivityOfRow(out[k], rowsIn[f[k]])

\* a.date <= b.date of the dates' time values; false when either is NaN.
DateLeq(a, b) == TimeDiff(a, b) \in {"neg", "zero"}

SortedByDate(out) ==
    \A k \in 1..(Len(out) - 1) : DateLeq(out[k].date, out[k + 1].date)

Parsed == pc = "parsed"

(***************************************************************************)
(* C1: record boundaries of the scanner                                    *)
(***************************************************************************)
\* Position i of text lies outside quotes: an even number of quotes precede.
Unquoted(text, i) ==
    Cardinality({k \in 1..(i - 1) : text[k] = QUOTE}) % 2 = 0

\* Unquoted line terminators: \n, or \r that is not the \r of \r\n.
Terminators(text) ==
    {i \in 1..Len(text) :
        /\ text[i] \in {LF, CR}
        /\ Unquoted(text, i)
        /\ ~(text[i] = CR /\ i < Len(text) /\ text[i + 1] = LF)}

\* First position of the line that ends just before position t.
LineStart(text, t) ==
    LET before == {u \in Terminators(text) : u < t}
    IN  IF before = {} THEN 1
        ELSE 1 + (CHOOSE u \in before : \A v \in before : v <= u)

UnquotedCommas(text, t) ==
    Cardinality({i \in LineStart(text, t)..(t - 1) :
                    text[i] = COMMA /\ Unquoted(text, i)})

\* Terminators that close a line with more than one field.
ClosingTerminators(text) ==
    {t \in Terminators(text) : UnquotedCommas(text, t) >= 1}

\* Ends of all lines with more than one field: the closing terminators and,
\* when the text goes on behind its last terminator, the end of the text.
RecordEnds(text) ==
    ClosingTerminators(text) \cup
        (IF UnquotedCommas(text, Len(text) + 1) >= 1 THEN {Len(text) + 1} ELSE {})

KthSmallest(S, k) == CHOOSE x \in S : Cardinality({y \in S : y < x}) = k - 1

\* C1 as claimed: parseCSV's records are as many as the unquoted line
\* terminators that close a record with more than one field.
C1_RecordsEqualClosingTerminators ==
    Parsed => Len(records) = Cardinality(ClosingTerminators(csvText))

\* C1, amended: parseCSV ends a record only at an unquoted line terminator or
\* at the end of the text; the records are, in order, the lines with more
\* than one field that these delimit, each with one field more than the
\* line has unquoted commas, whatever newlines its quoted fields hold.
C1_RecordsFollowUnquotedTerminators ==
    Parsed =>
        /\ Len(records) = Cardinality(RecordEnds(csvText))
        /\ \A k \in 1..Len(records) :
              Len(records[k]) =
                  UnquotedCommas(csvText, KthSmallest(RecordEnds(csvText), k)) + 1

\* A quoted newline with an unquoted comma on either side, in a text that was
\* parsed into a single record of three fields.
C1_Witness ==
    /\ Parsed
    /\ Len(records) = 1
    /\ Len(records[1]) = 3
    /\ \E i, j, k \in 1..Len(csvText) :
          /\ i < j /\ j < k
          /\ csvText[i] = COMMA /\ Unquoted(csvText, i)
          /\ csvText[j] = LF /\ ~Unquoted(csvText, j)
          /\ csvText[k] = COMMA /\ Unquoted(csvText, k)

(***************************************************************************)
(* C2 .. C6: the row loop of parseCSV                                      *)
(***************************************************************************)
\* The part of csvText in front of the data rows: the header line, if any.
RECURSIVE RenderRows(_)
RenderRows(rows) ==
    IF rows = <<>> THEN <<>> ELSE RenderRow(Head(rows)) \o RenderRows(Tail(rows))

HeaderLine == SubSeq(csvText, 1, Len(csvText) - Len(RenderRows(rowsIn)))

IsShort(r) == r.short
NotShort(r) == ~r.short

\* C2: no activity parseCSV returns has distanceKm <= 0, and only rows whose
\* distance cell holds a positive number of meters are in the output: rows
\* with a zero, negative, missing or non-numeric distance are absent.
C2_NoNonPositiveDistance ==
    Parsed =>
        /\ \A k \in 1..Len(result) : IsPositive(result[k].distanceKm)
        /\ \E f \in [1..Len(result) ->
                       {i \in 1..Len(rowsIn) : rowsIn[i].dist \in PositiveCells}] :
              /\ \A j, k \in 1..Len(result) : f[j] = f[k] => j = k
              /\ \A k \in 1..Len(result) :
                    /\ result[k].id = rowsIn[f[k]].id
                    /\ result[k].distanceKm = KmOfCell(rowsIn[f[k]].dist)

\* A file with one positive-distance row and one row whose distance is zero,
\* negative, missing or not a number: one activity comes out.
C2_Witness ==
    /\ Parsed
    /\ Len(rowsIn) = 2
    /\ \E i \in 1..2 : ~rowsIn[i].short /\ rowsIn[i].dist \notin PositiveCells
    /\ Len(result) = 1

C4_SortedOnePerRow ==
    Parsed => SortedByDate(result) /\ OnePerRow(result, PassingRows(StrRun))

\* C5: an empty text and a text without a valid data row parse to the empty
\* sequence, and a data row with too few fields is skipped without a trace:
\* the output is an output of the same text without its short rows.
C5_EmptyAndMalformed ==
    Parsed =>
        /\ (csvText = <<>> => result = <<>>)
        /\ (PassingRows(StrRun) = {} => result = <<>>)
        /\ result \in parseCSV(HeaderLine \o RenderRows(SelectSeq(rowsIn, NotShort)))

\* A file with the standard header, a short row and a valid row, one
\* activity out.
C5_Witness ==
    /\ Parsed
    /\ header = HeaderStd
    /\ Len(rowsIn) = 2
    /\ Len(SelectSeq(rowsIn, IsShort)) = 1
    /\ Len(result) = 1

\* C6: every activity's id is a string of decimal digits taken from the
\* identifier cell of a row of its own, and without a header containing
\* "Activity ID" nothing is emitted.
C6_IdentifierIsDecimal ==
    Parsed =>
        /\ \A k \in 1..Len(result) : result[k].id \in DigitIds
        /\ \E f \in [1..Len(result) ->
                       {i \in 1..Len(rowsIn) : rowsIn[i].id \in DigitIds}] :
              /\ \A j, k \in 1..Len(result) : f[j] = f[k] => j = k
              /\ \A k \in 1..Len(result) : result[k].id = rowsIn[f[k]].id
        /\ (header # HeaderStd => result = <<>>)

\* A file with a row whose identifier is empty or not decimal next to a valid
\* row: one activity comes out.
C6_Witness ==
    /\ Parsed
    /\ Len(rowsIn) = 2
    /\ \E i \in 1..2 : ~rowsIn[i].short /\ rowsIn[i].id \notin DigitIds
    /\ Len(result) = 1

(***************************************************************************)
(* C8 .. C10: groupByWeek                                                  *)
(***************************************************************************)
Grouped == wkPc = "grouped"

\* The calendar week of a valid date, counted in whole weeks from Monday
\* 5 Jan 1970 (day 4).
WeekNo(date) == (date.day - 4) \div 7

\* Position in wkInput of an activity (identifiers are distinct there).
PosOf(a) == CHOOSE i \in 1..Len(wkInput) : wkInput[i] = a

RECURSIVE SumKm(_)
SumKm(acts) ==
    IF acts = <<>> THEN Zero ELSE Plus(Head(acts).distanceKm, SumKm(Tail(acts)))

RECURSIVE SumTotalKm(_)
SumTotalKm(ws) ==
    IF ws = <<>> THEN Zero ELSE Plus(Head(ws).totalKm, SumTotalKm(Tail(ws)))

\* C8: the buckets groupByWeek returns are strictly ascending by weekStart,
\* and the activities of a bucket keep the relative order of the input.
C8_BucketsAscendingOrderKept ==
    Grouped =>
        /\ \A b \in 1..(Len(weeks) - 1) :
              TimeDiff(weeks[b].weekStart, weeks[b + 1].weekStart) = "neg"
        /\ \A b \in 1..Len(weeks) :
              \A j, k \in 1..Len(weeks[b].activities) :
                  /\ \E i \in 1..Len(wkInput) : wkInput[i] = weeks[b].activities[j]
                  /\ j < k => PosOf(weeks[b].activities[j])
                                < PosOf(weeks[b].activities[k])

\* An input whose first activity is later than its last one, grouped into
\* several buckets, one of them with two activities.
C8_Witness ==
    /\ Grouped
    /\ Len(wkInput) = 3
    /\ TimeDiff(wkInput[1].date, wkInput[3].date) = "pos"
    /\ Len(weeks) = 2
    /\ \E b \in 1..2 : Len(weeks[b].activities) = 2

\* C9: the totalKm of the buckets add up to the distanceKm of the input,
\* and each bucket's totalKm is the sum over the activities it holds.
C9_TotalsAddUp ==
    Grouped =>
        /\ SumTotalKm(weeks) = SumKm(wkInput)
        /\ \A b \in 1..Len(weeks) : weeks[b].totalKm = SumKm(weeks[b].activities)

\* Two buckets, one holding two activities of different distance.
C9_Witness ==
    /\ Grouped
    /\ Len(weeks) = 2
    /\ \E b \in 1..2 :
          /\ Len(weeks[b].activities) = 2
          /\ weeks[b].activities[1].distanceKm # weeks[b].activities[2].distanceKm

\* C10: groupByWeek partitions its input: every activity is in exactly one
\* bucket, once; there are as many buckets as distinct weeks among the input
\* dates; no bucket is empty; activityCount is the length of activities.
C10_Partition ==
    Grouped =>
        /\ \A i \in 1..Len(wkInput) :
              Cardinality({p \in {<<b, j>> : b \in 1..Len(weeks), j \in 1..Len(wkInput)} :
                             /\ p[2] <= Len(weeks[p[1]].activities)
                             /\ weeks[p[1]].activities[p[2]] = wkInput[i]}) = 1
        /\ Len(weeks) = Cardinality({WeekNo(wkInput[i].date) : i \in 1..Len(wkInput)})
        /\ \A b \in 1..Len(weeks) :
              /\ weeks[b].activities # <<>>
              /\ weeks[b].activityCount = Len(weeks[b].activities)

\* Three activities on a Monday, the Sunday after it and the Monday after
\* that: two buckets.
C10_Witness ==
    /\ Grouped
    /\ Len(weeks) = 2
    /\ {wkInput[i].date.day : i \in 1..Len(wkInput)} = {19723, 19729, 19730}

(***************************************************************************)
(* C11: the span of a bucket                                               *)
(***************************************************************************)
\* Day number d is a Monday: 1 Jan 1970, day 0, was a Thursday.
IsMonday(d) == d % 7 = 4

\* C11: every bucket groupByWeek returns starts on a Monday at 00:00:00.000
\* and ends on the Sunday six days later at 23:59:59.999, and every activity
\* of the bucket has weekStart <= date <= weekEnd.
C11_BucketSpansMondayToSunday ==
    Grouped =>
        \A b \in 1..Len(weeks) :
            /\ weeks[b].weekStart.valid /\ weeks[b].weekEnd.valid
            /\ IsMonday(weeks[b].weekStart.day)
            /\ weeks[b].weekStart.ms = 0
            /\ weeks[b].weekEnd.day = weeks[b].weekStart.day + 6
            /\ weeks[b].weekEnd.ms = MsPerDay - 1
            /\ \A j \in 1..Len(weeks[b].activities) :
                  /\ DateLeq(weeks[b].weekStart, weeks[b].activities[j].date)
                  /\ DateLeq(weeks[b].activities[j].date, weeks[b].weekEnd)

\* Sunday 5 Jan 2025, last millisecond, in the bucket of Monday 30 Dec 2024:
\* the Monday lies six days earlier, in the previous month and year.
C11_Witness ==
    /\ Grouped
    /\ \E b \in 1..Len(weeks) :
          /\ YearOf(weeks[b].weekStart.day) = 2024
          /\ \E j \in 1..Len(weeks[b].activities) :
                /\ weeks[b].activities[j].date.day = weeks[b].weekStart.day + 6
                /\ weeks[b].activities[j].date.ms = MsPerDay - 1
                /\ YearOf(weeks[b].activities[j].date.day) = 2025

(***************************************************************************)
(* C12 - C14: calculateStats                                               *)
(***************************************************************************)
\* q is the quotient of total by the positive integer n.
IsQuotient(q, total, n) ==
    /\ q.kind = "num" /\ total.kind = "num"
    /\ q.num * total.den * n = total.num * q.den

\* The activities of acts whose type is `type`, in order.
OfType(acts, type) == SelectSeq(acts, LAMBDA a : a.type = type)

RECURSIVE SumValues(_)
SumValues(acc) ==
    IF acc = <<>> THEN Zero ELSE Plus(Head(acc).value, SumValues(Tail(acc)))

\* C12: calculateStats returns the sum of the distances, the numbers of
\* activities and of weeks, and the two averages, each 0 when its divisor is
\* 0; for empty inputs every number is 0, maxWeek is undefined and
\* typeBreakdown is empty.
C12_TotalsAndAverages ==
    stats.called =>
        /\ stats.totalKm = SumKm(wkInput)
        /\ stats.totalActivities = Len(wkInput)
        /\ stats.weekCount = Len(weeks)
        /\ IF Len(weeks) > 0
           THEN IsQuotient(stats.avgPerWeek, SumKm(wkInput), Len(weeks))
           ELSE stats.avgPerWeek = Zero
        /\ IF Len(wkInput) > 0
           THEN IsQuotient(stats.avgPerActivity, SumKm(wkInput), Len(wkInput))
           ELSE stats.avgPerActivity = Zero
        /\ (wkInput = <<>> /\ weeks = <<>>) =>
              /\ stats.totalKm = Zero
              /\ stats.totalActivities = 0 /\ stats.weekCount = 0
              /\ stats.maxWeek = UndefinedWeek
              /\ stats.typeBreakdown = <<>>

\* Three activities in two weeks: the two averages differ.
C12_Witness ==
    /\ stats.called
    /\ Len(wkInput) = 3
    /\ Len(weeks) = 2
    /\ stats.avgPerWeek # stats.avgPerActivity
    /\ stats.avgPerActivity.den # 1

\* C13: for a non-empty weeks sequence maxWeek is a bucket no other bucket
\* exceeds in totalKm, and the first such bucket in the given order.
C13_MaxWeekIsFirstGreatest ==
    (stats.called /\ weeks # <<>>) =>
        \E b \in 1..Len(weeks) :
            /\ stats.maxWeek = weeks[b]
            /\ \A c \in 1..Len(weeks) :
                  ~Greater(weeks[c].totalKm, weeks[b].totalKm)
            /\ \A c \in 1..(b - 1) : weeks[c].totalKm # weeks[b].totalKm

\* Two buckets share the greatest totalKm and the earlier one is maxWeek.
C13_Witness ==
    /\ stats.called
    /\ Len(weeks) = 2
    /\ weeks[1].totalKm = weeks[2].totalKm
    /\ stats.maxWeek = weeks[1]

\* C14: typeBreakdown has exactly one key per type among the activities, the
\* value of a key is the sum of the distances of the activities of that
\* type, and the values add up to totalKm.
C14_BreakdownPerType ==
    stats.called =>
        /\ {stats.typeBreakdown[k].key : k \in 1..Len(stats.typeBreakdown)}
              = {wkInput[i].type : i \in 1..Len(wkInput)}
        /\ \A j, k \in 1..Len(stats.typeBreakdown) :
              stats.typeBreakdown[j].key = stats.typeBreakdown[k].key => j = k
        /\ \A k \in 1..Len(stats.typeBreakdown) :
              stats.typeBreakdown[k].value
                  = SumKm(OfType(wkInput, stats.typeBreakdown[k].key))
        /\ SumValues(stats.typeBreakdown) = stats.totalKm

\* Two types, one of them with two activities of different distance.
C14_Witness ==
    /\ stats.called
    /\ Len(stats.typeBreakdown) = 2
    /\ \E k \in 1..2 :
          LET same == OfType(wkInput, stats.typeBreakdown[k].key)
          IN  Len(same) = 2 /\ same[1].distanceKm # same[2].distanceKm

(***************************************************************************)
(* C15 - C19: parseGPX                                                     *)
(***************************************************************************)
\* The calls of parseGPX made so far.
Calls == 1..Len(gpxOut)

HasActivity(call) == ~call.out.threw /\ "activity" \in DOMAIN call.out.value
HasError(call) == ~call.out.threw /\ "error" \in DOMAIN call.out.value

\* The track parseGPX is to read: the first of the document.
FirstTrack == gpxDoc.tracks[1]

\* C15: parseGPX never raises; what it returns holds exactly one of activity
\* and error; when the library raises, or the processing of the track does,
\* the invalid-format error is returned.
C15_ExactlyOneOfActivityOrError ==
    \A c \in Calls :
        /\ ~gpxOut[c].out.threw
        /\ Cardinality(DOMAIN gpxOut[c].out.value \cap {"activity", "error"}) = 1
        /\ gpxDoc.throws => gpxOut[c].out.value = [error |-> StrInvalidFormat]
        /\ (/\ ~gpxDoc.throws
            /\ gpxDoc.tracks # <<>>
            /\ Len(FirstTrack.points) >= 2
            /\ ~FirstTrack.hasDistance)
              => gpxOut[c].out.value = [error |-> StrInvalidFormat]

\* A first track of two points without a distance object: the exception of
\* the processing came back as the invalid-format error.
C15_Witness ==
    /\ Len(gpxOut) >= 1
    /\ ~gpxDoc.throws
    /\ gpxDoc.tracks # <<>>
    /\ Len(FirstTrack.points) >= 2
    /\ ~FirstTrack.hasDistance
    /\ gpxOut[1].out.value = [error |-> StrInvalidFormat]

\* C16: a document without tracks gives the no-tracks error; otherwise a
\* first track of fewer than 2 points gives the insufficient-points error
\* whatever the later tracks hold; an activity is returned only when the
\* first track has at least 2 points.
C16_ErrorsFollowFirstTrack ==
    \A c \in Calls :
        ~gpxDoc.throws =>
            /\ gpxDoc.tracks = <<>> => gpxOut[c].out.value = [error |-> StrNoTracks]
            /\ (gpxDoc.tracks # <<>> /\ Len(FirstTrack.points) < 2)
                  => gpxOut[c].out.value = [error |-> StrInsufficient]
            /\ HasActivity(gpxOut[c])
                  => (gpxDoc.tracks # <<>> /\ Len(FirstTrack.points) >= 2)

\* A first track of one point, followed by a track of two points with a
\* distance: no activity.
C16_Witness ==
    /\ Len(gpxOut) >= 1
    /\ Len(gpxDoc.tracks) = 2
    /\ Len(FirstTrack.points) = 1
    /\ Len(gpxDoc.tracks[2].points) = 2
    /\ gpxDoc.tracks[2].hasDistance
    /\ gpxOut[1].out.value = [error |-> StrInsufficient]

\* The first and the last point of the first track carry a time that is a
\* date.
Timestamped ==
    /\ FirstTrack.points[1].hasTime
    /\ FirstTrack.points[1].time.valid
    /\ FirstTrack.points[Len(FirstTrack.points)].hasTime
    /\ FirstTrack.points[Len(FirstTrack.points)].time.valid

\* Milliseconds from the first to the last point of the first track.
SpanMs ==
    (FirstTrack.points[Len(FirstTrack.points)].time.day
        - FirstTrack.points[1].time.day) * MsPerDay
    + FirstTrack.points[Len(FirstTrack.points)].time.ms
    - FirstTrack.points[1].time.ms

\* C17: when the first and last points carry timestamps, a returned activity
\* has as elapsedTime the whole number of seconds nearest to end minus
\* start, movingTime equal to elapsedTime, distanceKm a thousandth of the
\* track's distance in meters, and no heart rates.
C17_DurationAndDistance ==
    \A c \in Calls :
        (HasActivity(gpxOut[c]) /\ Timestamped) =>
            LET a == gpxOut[c].out.value.activity IN
            /\ IsInteger(a.elapsedTime)
            /\ a.elapsedTime.num * 1000 - SpanMs \in (-500)..500
            /\ a.movingTime = a.elapsedTime
            /\ IsQuotient(a.distanceKm, FirstTrack.distance, MetersPerKm)
            /\ a.avgHeartRate = Null
            /\ a.maxHeartRate = Null

\* Three points, the last ten minutes after the first two, 1000 m long:
\* 600 seconds and 1 km.
C17_Witness ==
    /\ Len(gpxOut) >= 1
    /\ HasActivity(gpxOut[1])
    /\ Len(FirstTrack.points) = 3
    /\ Timestamped
    /\ FirstTrack.points[2].hasTime
    /\ FirstTrack.points[2].time = FirstTrack.points[1].time
    /\ gpxOut[1].out.value.activity.elapsedTime = Num(600, 1)
    /\ gpxOut[1].out.value.activity.distanceKm = Num(1, 1)

\* Every time a point of the first track carries is a date.
TimesAreDates ==
    \A k \in 1..Len(FirstTrack.points) :
        FirstTrack.points[k].hasTime => FirstTrack.points[k].time.valid

\* C18 as claimed, for parseGPX: whatever the order or presence of the first
\* and last timestamps, elapsedTime and movingTime of a returned activity
\* are non-negative integers.
C18_DurationsNonNegativeIntegers ==
    \A c \in Calls :
        (HasActivity(gpxOut[c]) /\ TimesAreDates) =>
            LET a == gpxOut[c].out.value.activity IN
            /\ IsInteger(a.elapsedTime) /\ a.elapsedTime.num >= 0
            /\ IsInteger(a.movingTime) /\ a.movingTime.num >= 0

\* C19 as claimed: two parses of the same text under the same file name
\* give the same id.
C19_IdStableAcrossParses ==
    \A c, d \in Calls :
        (HasActivity(gpxOut[c]) /\ HasActivity(gpxOut[d]))
            => gpxOut[c].out.value.activity.id = gpxOut[d].out.value.activity.id

\* C19, amended: when the first point of the track carries a timestamp, two
\* parses of the same text under the same file name give the same id,
\* whenever they are made; the id is made of letters, digits and hyphens
\* only and ends with the alphanumeric characters of the file name.
C19_IdStableWhenStartIsTimestamped ==
    \A c, d \in Calls :
        (HasActivity(gpxOut[c]) /\ HasActivity(gpxOut[d])) =>
            LET id == gpxOut[c].out.value.activity.id
                tail == Len(SelectSeq(gpxName, LAMBDA ch : ch \in Letters \cup Digits))
            IN  /\ FirstTrack.points[1].hasTime
                      => id = gpxOut[d].out.value.activity.id
                /\ \A k \in 1..Len(id) : id[k] \in Letters \cup Digits \cup {"-"}
                /\ Len(id) > tail
                /\ id[Len(id) - tail] = "-"

\* Two parses at different instants of a track whose first point is
\* timestamped, under a file name with a space and a dot in it.
C19_Witness ==
    /\ Len(gpxOut) = 2
    /\ gpxOut[1].at # gpxOut[2].at
    /\ HasActivity(gpxOut[1]) /\ HasActivity(gpxOut[2])
    /\ FirstTrack.points[1].hasTime
    /\ FirstTrack.points[1].time.valid
    /\ Len(gpxName) = 7

(***************************************************************************)
(* C20: the order of the Dashboard's activities                            *)
(***************************************************************************)
\* C20: allActivities is sorted ascending by date in every reachable state,
\* after loads, CSV uploads and GPX uploads answered in any order.
C20_AllActivitiesSorted == SortedByDate(allActivities)

\* A GPX upload was answered after a load of two rows: its activity of
\* 1 Jan 2024 stands between the two loaded ones.
C20_Witness ==
    /\ Len(allActivities) = 3
    /\ allActivities[2].id[1] = "g"
    /\ allActivities[1].id = <<"9">>
    /\ allActivities[3].id = <<"8">>
    /\ inflight = EmptyBag

(***************************************************************************)
(* The identifiers in the Dashboard's working set                          *)
(***************************************************************************)
IdsUnique(acts) ==
    \A i, j \in 1..Len(acts) : i # j => acts[i].id # acts[j].id

\* C21: in every reachable state of the Dashboard no two activities of
\* allActivities carry the same id, whatever loads, CSV uploads and GPX
\* uploads came before.
C21_IdsUniqueInWorkingSet == IdsUnique(allActivities)

(***************************************************************************)
(* The key of the rows handed to the store                                 *)
(***************************************************************************)
\* The upload handlers whose upsert the store has taken and that have not
\* run on yet.
Saved == {op \in BagToSet(inflight) : op.kind \in {"csv", "gpx"} /\ ~op.error}

\* C22: every activity an upload handler has saved is in the table under
\* its own id: the strava_id of the row written for it equals the
\* activity's id, on the CSV path and on the GPX path.
C22_RowsKeyedByActivityId ==
    \A op \in Saved :
        \A k \in 1..Len(op.payload) :
            \E row \in store : row.strava_id = op.payload[k].id

(***************************************************************************)
(* What a CSV upload leaves of the working set                             *)
(***************************************************************************)
Holds(acts, a) == \E k \in 1..Len(acts) : acts[k] = a

\* C24: the step that completes a CSV upload keeps every activity the
\* working set held before, adds the parsed activities, and leaves the
\* working set as it was when the store refused the upsert.
C24_CsvUploadMerges ==
    [][\A op \in BagToSet(inflight) :
          (op.kind = "csv" /\ inflight' = inflight (-) SetToBag({op}))
          => /\ \A k \in 1..Len(allActivities) :
                   Holds(allActivities', allActivities[k])
             /\ ~op.error => \A k \in 1..Len(op.payload) :
                                Holds(allActivities', op.payload[k])
             /\ op.error => allActivities' = allActivities]_vars

(***************************************************************************)
(* parseGPX: the times of a track whose points lack them                   *)
(***************************************************************************)
\* The document has a first track that parseGPX can process: two points or
\* more, and a distance.
Readable ==
    /\ ~gpxDoc.throws
    /\ gpxDoc.tracks # <<>>
    /\ Len(FirstTrack.points) >= 2
    /\ FirstTrack.hasDistance

FirstPoint == FirstTrack.points[1]
LastPoint == FirstTrack.points[Len(FirstTrack.points)]

\* The duration is the whole number of seconds nearest to the time from
\* `start` to `end`.
IsDuration(x, start, end) ==
    /\ IsInteger(x)
    /\ x.num * 1000 - ((end.day - start.day) * MsPerDay + end.ms - start.ms)
          \in (-500)..500

\* C25 as claimed: the start is the time of the first point, or the
\* processing time when that point has none; the end is the time of the last
\* point, or the processing time when that point has none; an activity is
\* returned in every one of these cases.
C25_MissingTimesAreProcessingTime ==
    \A c \in Calls :
        (Readable /\ TimesAreDates) =>
            /\ HasActivity(gpxOut[c])
            /\ LET a == gpxOut[c].out.value.activity IN
               /\ a.date = IF FirstPoint.hasTime THEN FirstPoint.time
                                                 ELSE gpxOut[c].at
               /\ IsDuration(a.elapsedTime, a.date,
                             IF LastPoint.hasTime THEN LastPoint.time
                                                  ELSE gpxOut[c].at)

\* C25 as the code has it: the start is the time of the first point, or the
\* processing time when that point has none; the end is the time of the last
\* point, or the start when that point has none, so that the duration is 0;
\* an activity is returned in every one of these cases.
C25_MissingEndIsTheStart ==
    \A c \in Calls :
        (Readable /\ TimesAreDates) =>
            /\ HasActivity(gpxOut[c])
            /\ LET a == gpxOut[c].out.value.activity IN
               /\ a.date = IF FirstPoint.hasTime THEN FirstPoint.time
                                                 ELSE gpxOut[c].at
               /\ IsDuration(a.elapsedTime, a.date,
                             IF LastPoint.hasTime THEN LastPoint.time ELSE a.date)
               /\ ~LastPoint.hasTime => a.elapsedTime = Zero

\* Two parses of a track whose first point is timed 10:00:00 and whose last
\* point has no time, the second parse later than the first and both after
\* 10:10: both are dated 10:00:00 and give a duration of 0.
C25_Witness ==
    /\ Len(gpxOut) = 2
    /\ Readable
    /\ ~LastPoint.hasTime
    /\ FirstPoint.hasTime /\ FirstPoint.time.valid
    /\ gpxOut[1].at # FirstPoint.time
    /\ gpxOut[2].at # gpxOut[1].at
    /\ \A c \in Calls :
          /\ HasActivity(gpxOut[c])
          /\ gpxOut[c].out.value.activity.date = FirstPoint.time
          /\ gpxOut[c].out.value.activity.elapsedTime = Zero

\* C26: no activity parseGPX returns has a distanceKm of 0 or less; a first
\* track whose total distance is 0 yields no activity.
C26_NoNonPositiveGpxDistance ==
    \A c \in Calls :
        HasActivity(gpxOut[c]) =>
            IsPositive(gpxOut[c].out.value.activity.distanceKm)

(***************************************************************************)
(* parseDate                                                               *)
(***************************************************************************)
\* The cell was written as day, month word, year and time.
IsWritten(f) == "month" \in DOMAIN f

\* The date has exactly the fields the cell was written from.
HasFields(date, f, month) ==
    /\ date.valid
    /\ YearOf(date.day) = f.year.n
    /\ MonthOf(date.day) = month
    /\ GetDate(date) = f.day.n
    /\ date.ms = ((f.time.h * 60 + f.time.mi) * 60 + f.time.sec) * 1000

\* What new Date(text) may give for a cell that is not of the form: for a
\* day-month-year-time text with another month word, either no date or the
\* date in the month the word names; for an ISO date, its midnight; for
\* the other texts, no date.
IsGenericParse(date, f) ==
    IF IsWritten(f)
    THEN date = InvalidDate \/ (f.month.n >= 0 /\ HasFields(date, f, f.month.n))
    ELSE IF Len(f.text) = 10
    THEN date = [valid |-> TRUE, day |-> DayNumber(2024, 0, 5), ms |-> 0]
    ELSE date = InvalidDate

\* C27: a cell of the form day, month abbreviation (Jan .. Dec, or Sept),
\* four-digit year, optional comma, H:MM or H:MM:SS gives the date-time of
\* exactly these fields, the second 0 when left out; any other cell, one
\* with another month word included, gives what the generic parse of the
\* text gives.
C27_ExactFieldsOrGenericParse ==
    dateOut.called =>
        IF IsWritten(dateField) /\ dateField.month.abbrev
        THEN HasFields(dateOut.value, dateField, dateField.month.n)
        ELSE IsGenericParse(dateOut.value, dateField)

(***************************************************************************)
(* The dates of parseCSV's output                                          *)
(***************************************************************************)
\* C28: every activity parseCSV returns carries a valid date, a row whose
\* date cell is missing or no date being skipped, and groupByWeek applied
\* to the output returns without raising.
C28_ParsedDatesValid ==
    Parsed =>
        /\ \A k \in 1..Len(result) : result[k].date.valid
        /\ ~groupByWeek(result).threw

(***************************************************************************)
(* Who reads and writes the rows of activities                             *)
(***************************************************************************)
\* C23: a statement that updated or deleted a row of activities was run by
\* the user the row belongs to; a row is inserted under the user_id of the
\* user who inserts it; the rows a user is shown are the user's own unless
\* the user holds the admin role.
C23_OnlyTheOwnerWrites ==
    lastStmt.op \in {"select", "insert", "update", "delete"} =>
        /\ lastStmt.op \in {"update", "delete"} =>
              \A r \in lastStmt.rows : r.user_id = lastStmt.actor
        /\ lastStmt.op = "insert" =>
              \A r \in lastStmt.after : r.user_id = lastStmt.actor
        /\ lastStmt.op = "select" =>
              \A r \in lastStmt.rows :
                  \/ r.user_id = lastStmt.actor
                  \/ [user_id |-> lastStmt.actor, role |-> "admin"] \in userRoles

(***************************************************************************)
(* admin-invite-user: the checks before the invitation                     *)
(***************************************************************************)
\* The checks of a request r, on the tables as they stand.
HeaderPresent(r) == r.auth.present

TokenResolves(r) ==
    r.fault # "getUser" /\ \E u \in authUsers : u.id = r.auth.token

CallerIsAdmin(r) ==
    r.fault # "has_role"
        /\ [user_id |-> r.auth.token, role |-> "admin"] \in userRoles

\* An address without white space, with one @ that is not its first
\* character, and after the @ a dot that has a character on either side.
WellFormed(email) ==
    /\ \A k \in 1..Len(email) : email[k] \notin WhiteSpace
    /\ Cardinality({k \in 1..Len(email) : email[k] = "@"}) = 1
    /\ \E at \in 2..Len(email) :
          /\ email[at] = "@"
          /\ \E dot \in (at + 2)..(Len(email) - 1) : email[dot] = "."

EmailGood(r) == r.body.json /\ r.body.email # <<>> /\ WellFormed(r.body.email)

RoleGood(r) == ~r.body.role.given \/ r.body.role.text \in {StrUser, StrAdmin}

EveryCheckPasses(r) ==
    /\ r.method = "POST"
    /\ HeaderPresent(r)
    /\ TokenResolves(r)
    /\ CallerIsAdmin(r)
    /\ EmailGood(r)
    /\ RoleGood(r)

\* The step ends the handling of a request.
Answers == fnPc' = "done" /\ (fnPc # "done" \/ reqCount' # reqCount)

\* The step sends an invitation, adds a user or changes a role.
Invites ==
    \/ invitesSent' # invitesSent
    \/ authUsers' # authUsers
    \/ userRoles' # userRoles

\* The request r passes the checks of the header, the token and the admin
\* role.
CallerPasses(r) == HeaderPresent(r) /\ TokenResolves(r) /\ CallerIsAdmin(r)

\* The status resp answers the first of the caller's checks that r fails:
\* header (401), token (401), admin role (403).
CallerAnswered(r, resp) ==
    /\ ~HeaderPresent(r) => resp = 401
    /\ (HeaderPresent(r) /\ ~TokenResolves(r)) => resp = 401
    /\ (HeaderPresent(r) /\ TokenResolves(r) /\ ~CallerIsAdmin(r)) => resp = 403

====
